---- MODULE Spec2Model ----
(***************************************************************************)
(* The four-stage NG12 assistant pipeline (intent + safety gate,           *)
(* structured intake, hierarchical hybrid retrieval, evidence extraction   *)
(* with confidence gating) as a state machine over one request slot and    *)
(* the shared Index.  Scores are fixed-point: 100 stands for 1.0.          *)
(***************************************************************************)
EXTENDS Integers, Sequences, FiniteSets, TLC

(***************************************************************************)
(* Bounds of the model.                                                    *)
(***************************************************************************)
\* largest number of terms in a query text
MaxQueryTerms == 2
\* largest number of symptoms the extraction capability returns
MaxSymptoms == 2

(***************************************************************************)
(* Configuration and fixed policy values.                                  *)
(***************************************************************************)
\* CONFIDENCE_THRESHOLD=0.7
CONFIDENCE_THRESHOLD == 70
\* weights of compute_confidence: 0.4 / 0.3 / 0.2 / 0.1
W_RETRIEVAL == 40
W_CONSTRAINT == 30
W_SPECIFICITY == 20
W_COVERAGE == 10
\* hybrid search: BM25 50% weight, semantic 50% weight
W_LEXICAL == 50
W_SEMANTIC == 50
\* additive bonus of a full metadata match
METADATA_BOOST == 15
\* score-based ranking: ties within 0.15 of the top score, max 10 results
SCORE_MARGIN == 15
MAX_RESULTS == 10
\* coarse routing keeps the top 5 sections of each method
COARSE_TOP_K == 5
\* retrieval_strength averages the top chunks
TOP_N == 3
\* one retry of the text-generation call: two attempts in all
MAX_GENERATION_ATTEMPTS == 2
\* the absent age (age: int | None)
NO_AGE == 0
\* the absent string (cancer_site, rule_id, escalation_message: str | None)
NONE == "none"

(***************************************************************************)
(* Generic helpers on sequences and sets of numbers.                       *)
(***************************************************************************)
Range(s) == {s[i] : i \in DOMAIN s}

Min(a, b) == IF a <= b THEN a ELSE b

RECURSIVE SumSeq(_)
SumSeq(s) == IF s = <<>> THEN 0 ELSE Head(s) + SumSeq(Tail(s))

\* mean of a list of scores; an empty list scores 0
MeanSeq(s) == IF s = <<>> THEN 0 ELSE SumSeq(s) \div Len(s)

\* the members of a sequence that satisfy a per-index test, in order
RECURSIVE KeepIdx(_, _, _)
KeepIdx(s, keep, i) ==
    IF i > Len(s) THEN <<>>
    ELSE (IF i \in keep THEN <<s[i]>> ELSE <<>>) \o KeepIdx(s, keep, i + 1)

Prefix(s, n) == SubSeq(s, 1, Min(n, Len(s)))

(***************************************************************************)
(* The source document: a markdown-like heading hierarchy with numbered    *)
(* recommendation sentences.  A line is a heading (level >= 1, one title)  *)
(* or a content block (level 0, its words).                                *)
(***************************************************************************)
Heading(level, title) == [level |-> level, words |-> <<title>>]
Block(words) == [level |-> 0, words |-> words]

Document ==
    << Heading(1, "recommendations_organised_by_site_of_cancer"),
       Block(<<"recommendations", "apply", "to", "people", "presenting", "in", "primary", "care">>),
       Heading(2, "upper_gastrointestinal_tract_cancers"),
       Heading(3, "oesophageal_cancer"),
       Block(<<"1.2.1", "refer", "urgent", "aged_55_and_over", "weight_loss", "heartburn">>),
       Heading(3, "stomach_cancer"),
       Block(<<"1.2.7", "refer", "urgent", "aged_55_and_over", "weight_loss", "heartburn">>),
       Block(<<"1.2.9", "consider", "investigation", "aged_55_and_over", "weight_loss", "abdominal_pain">>),
       Heading(2, "lower_gastrointestinal_tract_cancers"),
       Heading(3, "colorectal_cancer"),
       Block(<<"1.3.1", "offer", "investigation", "fit", "abdominal_pain", "under_50">>),
       Block(<<"safety_netting", "review", "people", "with", "abdominal_pain">>) >>

GUIDELINE_VERSION == "ng12_2023"

(***************************************************************************)
(* Vocabularies of the metadata extraction.                                *)
(***************************************************************************)
\* NG12 recommendation numbers <major>.<minor>.<patch>
RuleIds == {"1.2.1", "1.2.7", "1.2.9", "1.3.1"}

\* curated vocabulary of clinical terms
SymptomVocabulary == {"weight_loss", "heartburn", "abdominal_pain"}

\* headings that denote a cancer site
CancerSites ==
    {"upper_gastrointestinal_tract_cancers", "oesophageal_cancer", "stomach_cancer",
     "lower_gastrointestinal_tract_cancers", "colorectal_cancer"}

\* explicit age phrases and the bounds they set
AgePhrases == {"aged_55_and_over", "under_50", "40_to_49"}

AgeMinOf(phrase) ==
    CASE phrase = "aged_55_and_over" -> 55
      [] phrase = "40_to_49" -> 40
      [] OTHER -> NO_AGE

AgeMaxOf(phrase) ==
    CASE phrase = "under_50" -> 49
      [] phrase = "40_to_49" -> 49
      [] OTHER -> NO_AGE

(***************************************************************************)
(* Corpus Indexer: build_index.                                            *)
(***************************************************************************)
\* the stack of enclosing headings after the first n lines of the document
RECURSIVE HeadingStack(_, _)
HeadingStack(doc, n) ==
    IF n = 0 THEN <<>>
    ELSE LET below == HeadingStack(doc, n - 1)
             line == doc[n]
         IN  IF line.level = 0 THEN below
             ELSE Prefix(below, line.level - 1) \o line.words

\* first matching category wins, default informational
ActionCategory(words) ==
    LET w == Range(words)
    IN  CASE "urgent" \in w /\ "refer" \in w -> "urgent_referral"
          [] "refer" \in w -> "routine_referral"
          [] "investigation" \in w -> "investigation"
          [] "safety_netting" \in w -> "safety_netting"
          [] OTHER -> "informational"

\* a <major>.<minor>.<patch> number at the start of the block
RecommendationId(words) ==
    IF words # <<>> /\ Head(words) \in RuleIds THEN Head(words) ELSE NONE

\* the first explicit age phrase of the block, if any
AgePhraseOf(words) ==
    LET at == {i \in DOMAIN words : words[i] \in AgePhrases}
    IN  IF at = {} THEN NONE ELSE words[CHOOSE i \in at : \A j \in at : i <= j]

SymptomTags(words) == Range(words) \cap SymptomVocabulary

\* the nearest enclosing heading that denotes a cancer site
CancerSite(path) ==
    LET at == {i \in DOMAIN path : path[i] \in CancerSites}
    IN  IF at = {} THEN NONE ELSE path[CHOOSE i \in at : \A j \in at : j <= i]

ChunkMetadata(words, path, version) ==
    [section_path |-> path,
     cancer_site |-> CancerSite(path),
     symptom_tags |-> SymptomTags(words),
     age_min |-> AgeMinOf(AgePhraseOf(words)),
     age_max |-> AgeMaxOf(AgePhraseOf(words)),
     action_type |-> ActionCategory(words),
     rule_id |-> RecommendationId(words),
     guideline_version |-> version]

\* the lines of the document that are content blocks, in document order
RECURSIVE BlockLines(_, _)
BlockLines(doc, n) ==
    IF n = 0 THEN <<>>
    ELSE BlockLines(doc, n - 1) \o (IF doc[n].level = 0 THEN <<n>> ELSE <<>>)

\* one chunk per content block, its text the block's words unchanged
ParseChunks(doc, version) ==
    LET lines == BlockLines(doc, Len(doc))
    IN  [k \in 1..Len(lines) |->
            LET n == lines[k]
                path == HeadingStack(doc, n)
            IN  [chunk_id |-> k,
                 text |-> doc[n].words,
                 section_level |-> Len(path),
                 metadata |-> ChunkMetadata(doc[n].words, path, version)]]

\* CorpusParseError: no heading level found
CorpusParses(doc) == \E n \in DOMAIN doc : doc[n].level > 0

(***************************************************************************)
(* The embedding function text -> vector, and cosine similarity.           *)
(***************************************************************************)
\* a word's concept: synonyms share one
ConceptOf(word) ==
    CASE word = "referral" -> "refer"
      [] word = "colorectal" -> "colorectal_cancer"
      [] OTHER -> word

Dimensions ==
    {"weight_loss", "heartburn", "abdominal_pain", "refer", "investigation", "fit",
     "colorectal_cancer"}

CountIn(words, d) == Cardinality({i \in DOMAIN words : ConceptOf(words[i]) = d})

embed(words) == [d \in Dimensions |-> CountIn(words, d)]

RECURSIVE DotOver(_, _, _)
DotOver(u, v, dims) ==
    IF dims = {} THEN 0
    ELSE LET d == CHOOSE x \in dims : TRUE
         IN  u[d] * v[d] + DotOver(u, v, dims \ {d})

Dot(u, v) == DotOver(u, v, Dimensions)

\* integer square root
ISqrt(n) == CHOOSE r \in 0..n : r * r <= n /\ n < (r + 1) * (r + 1)

\* cosine similarity in 0..100; a zero vector is similar to nothing
Cosine(u, v) ==
    LET nn == Dot(u, u) * Dot(v, v)
    IN  IF nn = 0 THEN 0 ELSE Min(100, (100 * Dot(u, v)) \div ISqrt(nn))

VectorSum(u, v) == [d \in Dimensions |-> u[d] + v[d]]

ZeroVector == [d \in Dimensions |-> 0]

(***************************************************************************)
(* The Index: chunks, lexical index, dense vectors, section aggregates.    *)
(***************************************************************************)
IsPrefix(p, q) == Len(p) <= Len(q) /\ SubSeq(q, 1, Len(p)) = p

\* block-local term frequency of each term of a chunk
TermFrequency(words) ==
    [t \in Range(words) |-> Cardinality({i \in DOMAIN words : words[i] = t})]

\* every section path: the non-empty prefixes of the chunks' paths
SectionPaths(chunks) ==
    UNION {{SubSeq(chunks[k].metadata.section_path, 1, n) :
                n \in 1..Len(chunks[k].metadata.section_path)} : k \in DOMAIN chunks}

ChunksUnder(chunks, path) ==
    {k \in DOMAIN chunks : IsPrefix(path, chunks[k].metadata.section_path)}

RECURSIVE Centroid(_, _)
Centroid(dense, ids) ==
    IF ids = {} THEN ZeroVector
    ELSE LET k == CHOOSE x \in ids : TRUE
         IN  VectorSum(dense[k], Centroid(dense, ids \ {k}))

SectionAggregate(chunks, dense, path) ==
    LET ids == ChunksUnder(chunks, path)
    IN  [section_path |-> path,
         chunk_ids |-> ids,
         terms |-> UNION {Range(chunks[k].text) : k \in ids},
         symptom_tags |-> UNION {chunks[k].metadata.symptom_tags : k \in ids},
         centroid |-> Centroid(dense, ids)]

build_index(doc, version) ==
    LET chunks == ParseChunks(doc, version)
        dense == [k \in DOMAIN chunks |-> embed(chunks[k].text)]
    IN  [version |-> version,
         chunks |-> chunks,
         lexical |-> [k \in DOMAIN chunks |-> TermFrequency(chunks[k].text)],
         dense |-> dense,
         sections |-> {SectionAggregate(chunks, dense, p) : p \in SectionPaths(chunks)}]

(***************************************************************************)
(* Hybrid Retriever: coarse_route, fine_retrieve, rerank.                  *)
(***************************************************************************)
\* the heading titles in alphabetical order
TitleOrder ==
    << "colorectal_cancer", "lower_gastrointestinal_tract_cancers", "oesophageal_cancer",
       "recommendations_organised_by_site_of_cancer", "stomach_cancer",
       "upper_gastrointestinal_tract_cancers" >>

TitleRank(title) == CHOOSE i \in DOMAIN TitleOrder : TitleOrder[i] = title

\* alphabetical order of section paths
RECURSIVE PathBefore(_, _)
PathBefore(p, q) ==
    IF q = <<>> THEN FALSE
    ELSE IF p = <<>> THEN TRUE
    ELSE IF Head(p) # Head(q) THEN TitleRank(Head(p)) < TitleRank(Head(q))
    ELSE PathBefore(Tail(p), Tail(q))

\* normalized term overlap of the query with a set of terms
LexicalScore(query, terms) ==
    (100 * Cardinality({i \in DOMAIN query : query[i] \in terms})) \div Len(query)

\* faulty variant: a query vector is used although the embedding call failed
SemanticScore_Unchecked(query, vector, embedded) == Cosine(embed(query), vector)

\* cosine similarity of the query vector; 0 when the embedding call failed
SemanticScore(query, vector, embedded) ==
    IF embedded THEN Cosine(embed(query), vector) ELSE 0

\* higher score first, then shallower section, then alphabetical path
SectionBefore(a, b) ==
    \/ a.score > b.score
    \/ /\ a.score = b.score
       /\ \/ Len(a.section_path) < Len(b.section_path)
          \/ /\ Len(a.section_path) = Len(b.section_path)
             /\ PathBefore(a.section_path, b.section_path)

\* scored sections in ranking order
RankedSections(scored) ==
    [i \in 1..Cardinality(scored) |->
        CHOOSE x \in scored : Cardinality({y \in scored : SectionBefore(y, x)}) = i - 1]

\* the top K section paths of one scoring method, zero scores left out
TopSections(scored) ==
    LET hits == {e \in scored : e.score > 0}
        ranked == RankedSections(hits)
    IN  {ranked[i].section_path : i \in 1..Min(COARSE_TOP_K, Len(ranked))}

coarse_route(query, index, embedded) ==
    LET lexical == {[section_path |-> a.section_path,
                     score |-> LexicalScore(query, a.terms)] : a \in index.sections}
        semantic == {[section_path |-> a.section_path,
                      score |-> SemanticScore(query, a.centroid, embedded)] :
                          a \in index.sections}
        union == TopSections(lexical) \cup TopSections(semantic)
        both == {[section_path |-> a.section_path,
                  score |-> LexicalScore(query, a.terms)
                              + SemanticScore(query, a.centroid, embedded)] :
                      a \in {x \in index.sections : x.section_path \in union}}
        ranked == RankedSections(both)
    IN  [i \in 1..Len(ranked) |-> ranked[i].section_path]

\* cancer sites named by the query
QuerySites(query) == {ConceptOf(query[i]) : i \in DOMAIN query} \cap CancerSites

\* the constraints that apply to a chunk, and those it satisfies
ApplicableConstraints(query, case_fields, meta) ==
    (IF case_fields.age # NO_AGE /\ (meta.age_min # NO_AGE \/ meta.age_max # NO_AGE)
        THEN {"age"} ELSE {})
    \cup (IF case_fields.symptoms # <<>> THEN {"symptoms"} ELSE {})
    \cup (IF QuerySites(query) # {} THEN {"cancer_site"} ELSE {})

SatisfiedConstraints(query, case_fields, meta) ==
    {c \in ApplicableConstraints(query, case_fields, meta) :
        CASE c = "age" ->
                /\ (meta.age_min = NO_AGE \/ case_fields.age >= meta.age_min)
                /\ (meta.age_max = NO_AGE \/ case_fields.age <= meta.age_max)
          [] c = "symptoms" -> Range(case_fields.symptoms) \cap meta.symptom_tags # {}
          [] OTHER -> meta.cancer_site \in QuerySites(query)}

\* fraction of applicable constraints satisfied; 1.0 when none applies
MetadataMatch(query, case_fields, meta) ==
    LET applicable == ApplicableConstraints(query, case_fields, meta)
    IN  IF applicable = {} THEN 100
        ELSE (100 * Cardinality(SatisfiedConstraints(query, case_fields, meta)))
                \div Cardinality(applicable)

ScoreChunk(query, case_fields, index, k, embedded) ==
    LET chunk == index.chunks[k]
        lexical == LexicalScore(query, DOMAIN index.lexical[k])
        semantic == SemanticScore(query, index.dense[k], embedded)
        combined == (W_LEXICAL * lexical + W_SEMANTIC * semantic) \div 100
        match == MetadataMatch(query, case_fields, chunk.metadata)
        boosted == IF match = 100
                      /\ ApplicableConstraints(query, case_fields, chunk.metadata) # {}
                   THEN combined + METADATA_BOOST ELSE combined
    IN  [chunk |-> chunk,
         lexical_score |-> lexical,
         semantic_score |-> semantic,
         combined_score |-> boosted,
         metadata_match |-> match]

\* the chunks of the candidate sections, scored, in index order
fine_retrieve(query, case_fields, candidate_sections, index, embedded) ==
    LET ids == {k \in DOMAIN index.chunks :
                   \E i \in DOMAIN candidate_sections :
                       IsPrefix(candidate_sections[i], index.chunks[k].metadata.section_path)}
        all == [k \in DOMAIN index.chunks |->
                   ScoreChunk(query, case_fields, index, k, embedded)]
    IN  KeepIdx(all, ids, 1)

\* faulty variant: the shallower section wins a tie
ChunkBefore_ShallowFirst(scored, i, j) ==
    \/ scored[i].combined_score > scored[j].combined_score
    \/ /\ scored[i].combined_score = scored[j].combined_score
       /\ \/ scored[i].chunk.section_level < scored[j].chunk.section_level
          \/ /\ scored[i].chunk.section_level = scored[j].chunk.section_level
             /\ i < j

\* higher boosted score first, then the deeper section, then the earlier chunk
ChunkBefore(scored, i, j) ==
    \/ scored[i].combined_score > scored[j].combined_score
    \/ /\ scored[i].combined_score = scored[j].combined_score
       /\ \/ scored[i].chunk.section_level > scored[j].chunk.section_level
          \/ /\ scored[i].chunk.section_level = scored[j].chunk.section_level
             /\ i < j

rerank(scored) ==
    LET order == [n \in 1..Len(scored) |->
                     CHOOSE i \in DOMAIN scored :
                         Cardinality({j \in DOMAIN scored : ChunkBefore(scored, j, i)}) = n - 1]
        ranked == [n \in 1..Len(order) |-> scored[order[n]]]
        capped == Prefix(ranked, MAX_RESULTS)
        near == {n \in DOMAIN capped :
                    capped[n].combined_score >= capped[1].combined_score - SCORE_MARGIN}
    IN  KeepIdx(capped, near, 1)

\* RetrievalResult of Stage 3
retrieve_structured_evidence(query, case_fields, index, embedded) ==
    LET sections == coarse_route(query, index, embedded)
        chunks == IF sections = <<>> THEN <<>>
                  ELSE rerank(fine_retrieve(query, case_fields, sections, index, embedded))
    IN  [candidate_sections |-> sections,
         rule_chunks |-> chunks,
         degraded |-> ~embedded]

(***************************************************************************)
(* Stage 1: intent classification and safety gate.                         *)
(***************************************************************************)
IntentType == {"guideline_lookup", "case_triage", "documentation"}

ResponseType == {"answer", "clarification", "refusal", "error"}

\* red-flag rules and the keywords that fire them
RedFlagRules == {"treatment_request", "diagnostic_request", "emergency"}

RedFlagKeywords(rule) ==
    CASE rule = "treatment_request" -> {"treatment", "dosing"}
      [] rule = "diagnostic_request" -> {"diagnose"}
      [] OTHER -> {"emergency"}

RedFlags(query) == {r \in RedFlagRules : Range(query) \cap RedFlagKeywords(r) # {}}

EscalationMessage(red_flags) ==
    IF red_flags = {} THEN NONE
    ELSE IF "emergency" \in red_flags THEN "seek_emergency_care"
    ELSE "outside_scope_not_diagnostic"

\* faulty variant: the gate passes unless the emergency rule fires
check_safety_gate_EmergencyOnly(query) ==
    [checked |-> TRUE,
     passed |-> "emergency" \notin RedFlags(query),
     red_flags |-> RedFlags(query),
     escalation_message |-> EscalationMessage(RedFlags(query))]

check_safety_gate(query) ==
    [checked |-> TRUE,
     passed |-> RedFlags(query) = {},
     red_flags |-> RedFlags(query),
     escalation_message |-> EscalationMessage(RedFlags(query))]

(***************************************************************************)
(* Stage 2: structured intake.                                             *)
(***************************************************************************)
NoCaseFields ==
    [age |-> NO_AGE, sex |-> NONE, symptoms |-> <<>>, symptom_duration |-> NONE,
     missing_fields |-> {}]

\* the field names the extraction leaves missing
MissingFields(age, sex, symptoms, duration) ==
    (IF age = NO_AGE THEN {"age"} ELSE {})
    \cup (IF sex = NONE THEN {"sex"} ELSE {})
    \cup (IF symptoms = <<>> THEN {"symptoms"} ELSE {})
    \cup (IF duration = NONE THEN {"symptom_duration"} ELSE {})

CaseFields(age, sex, symptoms, duration) ==
    [age |-> age, sex |-> sex, symptoms |-> symptoms, symptom_duration |-> duration,
     missing_fields |-> MissingFields(age, sex, symptoms, duration)]

\* faulty variant: only the symptoms are required
RequiredFields_SymptomsOnly(intent) ==
    IF intent = "case_triage" THEN <<"symptoms">> ELSE <<>>

\* age required, symptoms required
RequiredFields(intent) == IF intent = "case_triage" THEN <<"age", "symptoms">> ELSE <<>>

FollowUpQuestion(field) ==
    CASE field = "age" -> "what_is_the_patients_age"
      [] field = "symptoms" -> "what_symptoms_does_the_patient_have"
      [] OTHER -> "please_provide_" \o field

FieldMissing(case_fields, field) ==
    CASE field = "age" -> case_fields.age = NO_AGE
      [] field = "symptoms" -> case_fields.symptoms = <<>>
      [] OTHER -> field \in case_fields.missing_fields

\* faulty variant: once a required field is missing, every required field is asked for
validate_intake_AsksAll(case_fields, intent) ==
    LET required == RequiredFields(intent)
        missing == {i \in DOMAIN required : FieldMissing(case_fields, required[i])}
    IN  [fields_collected |-> case_fields,
         is_complete |-> missing = {},
         follow_up_questions |->
             IF missing = {} THEN <<>>
             ELSE [i \in DOMAIN required |-> FollowUpQuestion(required[i])]]

validate_intake(case_fields, intent) ==
    LET required == RequiredFields(intent)
        missing == {i \in DOMAIN required : FieldMissing(case_fields, required[i])}
        asked == KeepIdx(required, missing, 1)
    IN  [fields_collected |-> case_fields,
         is_complete |-> missing = {},
         follow_up_questions |-> [i \in DOMAIN asked |-> FollowUpQuestion(asked[i])]]

NoIntake ==
    [fields_collected |-> NoCaseFields, is_complete |-> TRUE, follow_up_questions |-> <<>>]

(***************************************************************************)
(* Stage 4: evidence extraction and confidence.                            *)
(***************************************************************************)
\* faulty variant: the evidence text is cut to its first words
EvidenceOf_Truncated(scored) ==
    [chunk_id |-> scored.chunk.chunk_id,
     text |-> Prefix(scored.chunk.text, 3),
     section_path |-> scored.chunk.metadata.section_path,
     rule_id |-> scored.chunk.metadata.rule_id,
     relevance_score |-> scored.combined_score]

\* one VerbatimEvidence per retrieved chunk, its text copied unchanged
EvidenceOf(scored) ==
    [chunk_id |-> scored.chunk.chunk_id,
     text |-> scored.chunk.text,
     section_path |-> scored.chunk.metadata.section_path,
     rule_id |-> scored.chunk.metadata.rule_id,
     relevance_score |-> scored.combined_score]

\* faulty variant: only the chunks that carry a recommendation id give evidence
extract_evidence_RuledOnly(retrieval_result) ==
    LET ruled == {i \in DOMAIN retrieval_result.rule_chunks :
                     retrieval_result.rule_chunks[i].chunk.metadata.rule_id # NONE}
        kept == KeepIdx(retrieval_result.rule_chunks, ruled, 1)
    IN  [i \in DOMAIN kept |-> EvidenceOf(kept[i])]

extract_evidence(retrieval_result) ==
    [i \in DOMAIN retrieval_result.rule_chunks |-> EvidenceOf(retrieval_result.rule_chunks[i])]

\* mean boosted score of the top chunks, clamped to [0, 1]
RetrievalStrength(retrieval_result) ==
    LET top == Prefix(retrieval_result.rule_chunks, TOP_N)
    IN  Min(100, MeanSeq([i \in DOMAIN top |-> top[i].combined_score]))

\* mean metadata match of the retained chunks; 1.0 if no case fields were supplied
ConstraintMatch(case_fields, retrieval_result) ==
    IF case_fields = NoCaseFields THEN 100
    ELSE MeanSeq([i \in DOMAIN retrieval_result.rule_chunks |->
                     retrieval_result.rule_chunks[i].metadata_match])

\* share of the retained chunks that carry a rule id, each weighted by its depth
EvidenceSpecificity(retrieval_result) ==
    LET chunks == retrieval_result.rule_chunks
        depth == [i \in DOMAIN chunks |-> chunks[i].chunk.section_level]
        ruled == [i \in DOMAIN chunks |->
                     IF chunks[i].chunk.metadata.rule_id # NONE THEN depth[i] ELSE 0]
    IN  IF SumSeq(depth) = 0 THEN 0 ELSE (100 * SumSeq(ruled)) \div SumSeq(depth)

\* the sub-intents of a query: the symptoms it mentions
SubIntents(query) == Range(query) \cap SymptomVocabulary

\* share of the sub-intents that at least one retained chunk addresses
Coverage(query, evidence) ==
    LET asked == SubIntents(query)
        met == {s \in asked : \E i \in DOMAIN evidence : s \in Range(evidence[i].text)}
    IN  IF evidence = <<>> THEN 0
        ELSE IF asked = {} THEN 100
        ELSE (100 * Cardinality(met)) \div Cardinality(asked)

\* faulty variant: the weights of retrieval strength and constraint match swapped
Overall_WeightsSwapped(factors) ==
    (W_CONSTRAINT * factors.retrieval_strength + W_RETRIEVAL * factors.constraint_match
        + W_SPECIFICITY * factors.evidence_specificity + W_COVERAGE * factors.coverage)
      \div 100

Overall(factors) ==
    (W_RETRIEVAL * factors.retrieval_strength + W_CONSTRAINT * factors.constraint_match
        + W_SPECIFICITY * factors.evidence_specificity + W_COVERAGE * factors.coverage)
      \div 100

\* faulty variant: any positive confidence counts as meeting the threshold
ThresholdMet_AnyPositive(overall) == overall > 0

ThresholdMet(overall) == overall >= CONFIDENCE_THRESHOLD

compute_confidence(query, evidence, case_fields, retrieval_result) ==
    LET factors == [retrieval_strength |-> RetrievalStrength(retrieval_result),
                    constraint_match |-> ConstraintMatch(case_fields, retrieval_result),
                    evidence_specificity |-> EvidenceSpecificity(retrieval_result),
                    coverage |-> Coverage(query, evidence)]
    IN  [scored |-> TRUE,
         overall |-> Overall(factors),
         factors |-> factors,
         threshold_met |-> ThresholdMet(Overall(factors))]

NoConfidence ==
    [scored |-> FALSE,
     overall |-> 0,
     factors |-> [retrieval_strength |-> 0, constraint_match |-> 0,
                  evidence_specificity |-> 0, coverage |-> 0],
     threshold_met |-> FALSE]

\* the fail-closed branch: no answer generation
FailClosed(conf, evidence) == ~conf.threshold_met \/ evidence = <<>>

\* the confidence factor that is weakest (first of the lowest)
WeakestFactor(factors) ==
    LET names == <<"constraint_match", "retrieval_strength", "evidence_specificity", "coverage">>
        value(n) == CASE n = "constraint_match" -> factors.constraint_match
                      [] n = "retrieval_strength" -> factors.retrieval_strength
                      [] n = "evidence_specificity" -> factors.evidence_specificity
                      [] OTHER -> factors.coverage
        low == {i \in DOMAIN names : \A j \in DOMAIN names : value(names[i]) <= value(names[j])}
    IN  names[CHOOSE i \in low : \A j \in low : i <= j]

\* follow-up questions of the fail-closed branch
ClarifyingQuestions(conf, evidence, case_fields) ==
    IF evidence = <<>> THEN <<"no_relevant_guidance_found_please_rephrase">>
    ELSE LET weakest == WeakestFactor(conf.factors)
         IN  CASE weakest = "constraint_match" ->
                    IF case_fields.age = NO_AGE THEN <<FollowUpQuestion("age")>>
                    ELSE <<"which_criteria_does_the_patient_meet">>
               [] weakest = "retrieval_strength" -> <<"please_rephrase_the_question">>
               [] weakest = "evidence_specificity" -> <<"which_recommendation_do_you_mean">>
               [] OTHER -> <<"which_symptom_should_be_addressed_first">>

(***************************************************************************)
(* Response Composer: the typed outcomes.                                  *)
(***************************************************************************)
NoResponse ==
    [response_type |-> NONE, message |-> NONE, citations |-> <<>>, evidence |-> <<>>,
     follow_up_questions |-> <<>>]

Refusal(safety_result) ==
    [response_type |-> "refusal", message |-> safety_result.escalation_message,
     citations |-> <<>>, evidence |-> <<>>, follow_up_questions |-> <<>>]

Clarification(questions, evidence_list) ==
    [response_type |-> "clarification", message |-> "more_information_needed",
     citations |-> <<>>, evidence |-> evidence_list, follow_up_questions |-> questions]

\* citations [rule_id: section] of the evidence that carries a rule id
Citations(evidence_list) ==
    LET ruled == {i \in DOMAIN evidence_list : evidence_list[i].rule_id # NONE}
        kept == KeepIdx(evidence_list, ruled, 1)
    IN  [i \in DOMAIN kept |->
            [statement_id |-> kept[i].rule_id,
             section |-> kept[i].section_path[Len(kept[i].section_path)]]]

Answer(evidence_list) ==
    [response_type |-> "answer", message |-> "generated_answer",
     citations |-> Citations(evidence_list), evidence |-> evidence_list,
     follow_up_questions |-> <<>>]

ErrorResponse(evidence_list) ==
    [response_type |-> "error", message |-> "generation_service_unavailable",
     citations |-> <<>>, evidence |-> evidence_list, follow_up_questions |-> <<>>]

\* faulty variant: one retry too many
MayRetry_Again(attempts) == attempts <= MAX_GENERATION_ATTEMPTS

\* whether another generation attempt is allowed after `attempts` failures
MayRetry(attempts) == attempts < MAX_GENERATION_ATTEMPTS

(***************************************************************************)
(* Inputs.                                                                 *)
(***************************************************************************)
QueryVocabulary ==
    << "treatment", "diagnose", "emergency", "weight_loss", "heartburn", "referral",
       "colorectal", "xyzzy" >>

\* query texts: up to MaxQueryTerms distinct terms, in vocabulary order
Queries ==
    {KeepIdx(QueryVocabulary, picked, 1) :
        picked \in {p \in SUBSET DOMAIN QueryVocabulary :
                        Cardinality(p) \in 1..MaxQueryTerms}}

Ages == {NO_AGE, 45, 58}

Sexes == {NONE, "female"}

Durations == {NONE, "three_months"}

SymptomOrder == <<"weight_loss", "heartburn", "abdominal_pain">>

\* symptom lists: ordered, deduplicated
SymptomLists ==
    {KeepIdx(SymptomOrder, picked, 1) :
        picked \in {p \in SUBSET DOMAIN SymptomOrder : Cardinality(p) <= MaxSymptoms}}

(***************************************************************************)
(* State.                                                                  *)
(***************************************************************************)
VARIABLES
    index,                \* the Index in service
    pc,                   \* position of the request in process_message
    query,                \* the message being processed
    intent,               \* IntentClassification.intent
    safety,               \* SafetyGateResult
    case_fields,          \* CaseFields
    intake,               \* IntakeResult
    retrieval,            \* RetrievalResult
    evidence,             \* list of VerbatimEvidence
    confidence,           \* ConfidenceScore
    engine_state,         \* state of the Evidence & Confidence Engine
    generation_attempts,  \* text-generation calls made for this request
    response,             \* the ChatResponse returned
    calls                 \* the stage calls made for this request, in order

\* the Index lifecycle under concurrent requests
VARIABLES
    served,               \* the shared reference: the Index instance in service
    instances,            \* the Index instances allocated so far, by identifier
    builder,              \* the single-writer (re)build and its mutual-exclusion flag
    cache,                \* cache storage: the persisted artifacts by version_tag
    readers               \* the concurrent requests that read the Index

request_vars ==
    << pc, query, intent, safety, case_fields, intake, retrieval, evidence, confidence,
       engine_state, generation_attempts, response, calls >>

pipeline_vars ==
    << index, pc, query, intent, safety, case_fields, intake, retrieval, evidence,
       confidence, engine_state, generation_attempts, response, calls >>

indexer_vars == << served, instances, builder, cache, readers >>

\* the chat store of the frontend and its streams
VARIABLES
    store,                    \* the ChatState held by useChatStore
    currentAbortController,   \* the module-level controller of chatStore.ts
    streams,                  \* the requests sendMessage has sent, in order
    storage,                  \* the localStorage item written by the persist middleware
    next_id                   \* the next value generateId() returns

store_vars == << store, currentAbortController, streams, storage, next_id >>

\* one call of rerank
VARIABLES
    scored_chunks,   \* the scored chunks handed to rerank
    ranked_chunks,   \* the chunks it returned
    rerank_pc        \* "scored" before the call, "ranked" after it

rerank_vars == << scored_chunks, ranked_chunks, rerank_pc >>

\* the chat page around the store: the route, the effects of ChatPage and the
\* compile requests of the pathway tools
VARIABLES
    url,        \* the conversationId of the route /chat/:conversationId, NO_ID on /chat
    rendered,   \* what the last committed render of ChatPage saw
    compiles    \* the compile requests PathwayTool has sent, in order

page_vars == << url, rendered, compiles >>

vars == << pipeline_vars, indexer_vars, store_vars, rerank_vars, page_vars >>

NoSafety == [checked |-> FALSE, passed |-> TRUE, red_flags |-> {}, escalation_message |-> NONE]

NoRetrieval == [candidate_sections |-> <<>>, rule_chunks |-> <<>>, degraded |-> FALSE]

InFlight == {"classify", "safety", "intake", "retrieve", "extract", "score", "decide", "generate"}

(***************************************************************************)
(* The Index lifecycle: instances, the shared reference, the cache.        *)
(***************************************************************************)
\* most requests that run concurrently
MaxRequests == 2
\* most Index instances a run swaps in after the one loaded at process start
MaxRebuilds == 1

Requests == 1..MaxRequests

\* the shared reference before any Index is in service
NO_INSTANCE == 0

\* a revised edition of the guideline
DocumentRevised ==
    << Heading(1, "recommendations_organised_by_site_of_cancer"),
       Heading(2, "lower_gastrointestinal_tract_cancers"),
       Heading(3, "colorectal_cancer"),
       Block(<<"1.3.1", "offer", "investigation", "fit", "abdominal_pain", "aged_55_and_over">>),
       Block(<<"safety_netting", "review", "people", "with", "weight_loss">>) >>

\* a text with no heading structure
DocumentUnparseable == << Block(<<"recommendations", "apply", "to", "people">>) >>

REVISED_VERSION == "ng12_2025"

\* the (document_text, version_tag) pairs a build is started with
BuildInputs ==
    { [doc |-> Document, version |-> GUIDELINE_VERSION],
      [doc |-> DocumentRevised, version |-> REVISED_VERSION],
      [doc |-> DocumentUnparseable, version |-> REVISED_VERSION] }

\* a new Index instance, nothing built yet: every structure is empty
EmptyInstance(version) ==
    [version |-> version, chunks |-> <<>>, lexical |-> <<>>, dense |-> <<>>,
     sections |-> {}]

\* no Index
NoIndex == EmptyInstance(NONE)

\* an instance with every structure built
IsComplete(instance) ==
    /\ instance.chunks # <<>>
    /\ instance.lexical # <<>>
    /\ instance.dense # <<>>
    /\ instance.sections # {}

\* the four persisted artifacts of an Index
CacheArtifacts(instance) ==
    [chunks |-> instance.chunks,
     embeddings |-> instance.dense,
     lexical |-> instance.lexical,
     metadata |-> [k \in DOMAIN instance.chunks |-> instance.chunks[k].metadata]]

\* load_index(version_tag): the Index of the persisted artifacts, without reparsing
load_index(artifacts, version) ==
    [version |-> version,
     chunks |-> artifacts.chunks,
     lexical |-> artifacts.lexical,
     dense |-> artifacts.embeddings,
     sections |-> {SectionAggregate(artifacts.chunks, artifacts.embeddings, p) :
                      p \in SectionPaths(artifacts.chunks)}]

\* cache storage maps the version tags written so far to their artifacts
EmptyCache == <<>>

NoBuildInput == [doc |-> <<>>, version |-> NONE]

IdleBuilder ==
    [state |-> "idle", input |-> NoBuildInput, target |-> NO_INSTANCE,
     served_before |-> NO_INSTANCE, instance_before |-> NoIndex, cache_before |-> EmptyCache, error |-> NONE]

\* what a request has read of the Index so far
NothingSeen == [sections |-> {}, chunks |-> <<>>, lexical |-> <<>>, dense |-> <<>>]

IdleReader == [pc |-> "idle", ref |-> NO_INSTANCE, seen |-> NothingSeen]

\* process start: the cache is read; it is empty, or holds the artifacts of the
\* guideline, which load_index turns into the Index in service
IndexerInit ==
    /\ builder = IdleBuilder
    /\ readers = [r \in Requests |-> IdleReader]
    /\ \/ /\ cache = EmptyCache
          /\ instances = <<>>
          /\ served = NO_INSTANCE
       \/ /\ cache = [v \in {GUIDELINE_VERSION} |->
                         CacheArtifacts(build_index(Document, GUIDELINE_VERSION))]
          /\ instances = <<load_index(cache[GUIDELINE_VERSION], GUIDELINE_VERSION)>>
          /\ served = 1

(***************************************************************************)
(* The chat store of the frontend (chatStore.ts): values and conversions.  *)
(***************************************************************************)
\* most conversations created in a run
MaxConversations == 2
\* most values generateId() hands out in a run of the whole store
MaxIds == 5
\* most requests sendMessage sends in a run
MaxSends == 2
\* most chunks a stream delivers
MaxChunks == 1

\* the null conversation id and the null controller
NO_ID == 0

\* sendMessage keeps the last 10 previous messages as context
CONTEXT_WINDOW == 10

SolutionModes == {"graphrag", "rag", "custom"}

\* the text the user submits: ChatWindow trims it and drops an empty one
Inputs == {<<"question">>}

\* the chunks a stream delivers
Chunks == {"text"}

\* response_type values of a stream-completion event; "summary" stands for any
\* value outside ResponseType
EventResponseTypes == {"answer", "summary"}

\* a Date, and the ISO string JSON.stringify turns it into
DateOf(ms) == [date |-> ms]

IsoStringOf(date) == [iso |-> date.date]

\* new Date(isoString)
ParseDate(string) == [date |-> string.iso]

\* String.prototype.trim on a text of tokens: white space at both ends goes
RECURSIVE TrimStart(_)
TrimStart(text) ==
    IF text # <<>> /\ Head(text) = " " THEN TrimStart(Tail(text)) ELSE text

RECURSIVE TrimEnd(_)
TrimEnd(text) ==
    IF text # <<>> /\ text[Len(text)] = " " THEN TrimEnd(SubSeq(text, 1, Len(text) - 1))
    ELSE text

Trim(text) == TrimEnd(TrimStart(text))

\* Array.prototype.slice(-n)
LastN(s, n) == IF Len(s) <= n THEN s ELSE SubSeq(s, Len(s) - n + 1, Len(s))

\* createMessage('user', content)
UserMessage(id, content, now) ==
    [id |-> id, role |-> "user", content |-> content, timestamp |-> DateOf(now),
     isTyping |-> FALSE, response_type |-> NONE]

\* the empty assistant message that receives the stream
StreamingMessage(id, now) ==
    [id |-> id, role |-> "assistant", content |-> <<>>, timestamp |-> DateOf(now),
     isTyping |-> TRUE, response_type |-> NONE]

NewConversation(id, now) ==
    [id |-> id, title |-> <<"New conversation">>, messages |-> <<>>,
     createdAt |-> DateOf(now), updatedAt |-> DateOf(now)]

\* the initial state of the store
InitialChatState ==
    [conversations |-> <<>>, activeConversationId |-> NO_ID, isLoading |-> FALSE,
     error |-> NONE, solutionMode |-> "rag", routeType |-> "cancer_recognition",
     showArtifacts |-> TRUE]

ConversationIds(state) == {state.conversations[i].id : i \in DOMAIN state.conversations}

\* conversations.find(c => c.id === id)
FindConversation(state, id) ==
    LET at == {i \in DOMAIN state.conversations : state.conversations[i].id = id}
    IN  state.conversations[CHOOSE i \in at : \A j \in at : i <= j]

\* persist options: partialize keeps the messages that are not typing
RECURSIVE NotTyping(_)
NotTyping(messages) ==
    IF messages = <<>> THEN <<>>
    ELSE (IF ~Head(messages).isTyping THEN <<Head(messages)>> ELSE <<>>)
         \o NotTyping(Tail(messages))

partialize(state) ==
    [conversations |->
        [i \in DOMAIN state.conversations |->
            [state.conversations[i] EXCEPT !.messages = NotTyping(@)]],
     activeConversationId |-> state.activeConversationId,
     solutionMode |-> state.solutionMode,
     routeType |-> state.routeType,
     showArtifacts |-> state.showArtifacts]

\* JSON.stringify of the partial state: a Date becomes its ISO string
Stringify(partial) ==
    [partial EXCEPT !.conversations =
        [i \in DOMAIN @ |->
            [@[i] EXCEPT !.createdAt = IsoStringOf(@),
                         !.updatedAt = IsoStringOf(@),
                         !.messages = [k \in DOMAIN @ |->
                                          [@[k] EXCEPT !.timestamp = IsoStringOf(@)]]]]]

\* what the persist middleware writes on every set()
Persisted(state) == Stringify(partialize(state))

\* faulty variant: the date strings are left as they are
ReviveDates_Skipped(conversations) == conversations

\* persist options: onRehydrateStorage turns the date strings back into Dates
ReviveDates(conversations) ==
    [i \in DOMAIN conversations |->
        [conversations[i] EXCEPT !.createdAt = ParseDate(@),
                                 !.updatedAt = ParseDate(@),
                                 !.messages = [k \in DOMAIN @ |->
                                                  [@[k] EXCEPT !.timestamp = ParseDate(@)]]]]

\* rehydration: the stored item is merged over the initial state
Rehydrated(item) ==
    [InitialChatState EXCEPT !.conversations = ReviveDates(item.conversations),
                             !.activeConversationId = item.activeConversationId,
                             !.solutionMode = item.solutionMode,
                             !.routeType = item.routeType,
                             !.showArtifacts = item.showArtifacts]

\* the store of a first visit: nothing persisted yet
StoreInit ==
    /\ store = InitialChatState
    /\ currentAbortController = NO_ID
    /\ streams = <<>>
    /\ storage = Persisted(InitialChatState)
    /\ next_id = 1

\* no call of rerank under way
NoRerank ==
    /\ scored_chunks = <<>>
    /\ ranked_chunks = <<>>
    /\ rerank_pc = "ranked"

\* ChatPage before its first render
NotRendered ==
    [mounted |-> FALSE, conversationId |-> NO_ID, activeConversationId |-> NO_ID,
     conversations |-> <<>>]

\* the route /chat, nothing rendered, no pathway tool used
NoPage ==
    /\ url = NO_ID
    /\ rendered = NotRendered
    /\ compiles = <<>>

\* no request in the pipeline
RequestInit ==
    /\ pc = "idle"
    /\ query = <<>>
    /\ intent = NONE
    /\ safety = NoSafety
    /\ case_fields = NoCaseFields
    /\ intake = NoIntake
    /\ retrieval = NoRetrieval
    /\ evidence = <<>>
    /\ confidence = NoConfidence
    /\ engine_state = NONE
    /\ generation_attempts = 0
    /\ response = NoResponse
    /\ calls = <<>>

Init ==
    /\ index = build_index(Document, GUIDELINE_VERSION)
    /\ RequestInit
    /\ IndexerInit
    /\ served # NO_INSTANCE
    /\ StoreInit
    /\ NoRerank
    /\ NoPage

(***************************************************************************)
(* process_message, one action per stage call.                             *)
(***************************************************************************)
\* a message arrives: a fresh, stateless pipeline execution
Receive ==
    /\ pc \in {"idle", "done", "cancelled"}
    /\ \E q \in Queries : query' = q
    /\ pc' = "classify"
    /\ intent' = NONE
    /\ safety' = NoSafety
    /\ case_fields' = NoCaseFields
    /\ intake' = NoIntake
    /\ retrieval' = NoRetrieval
    /\ evidence' = <<>>
    /\ confidence' = NoConfidence
    /\ engine_state' = NONE
    /\ generation_attempts' = 0
    /\ response' = NoResponse
    /\ calls' = <<>>
    /\ UNCHANGED index
    /\ UNCHANGED << indexer_vars, store_vars, rerank_vars, page_vars >>

\* Stage 1: classify_intent(), an external classification
ClassifyIntent ==
    /\ pc = "classify"
    /\ \E i \in IntentType : intent' = i
    /\ pc' = "safety"
    /\ calls' = Append(calls, "classify_intent")
    /\ UNCHANGED << index, query, safety, case_fields, intake, retrieval, evidence,
                    confidence, engine_state, generation_attempts, response >>
    /\ UNCHANGED << indexer_vars, store_vars, rerank_vars, page_vars >>

\* faulty variant: the pipeline goes on after a failed safety gate
StageAfterSafetyGate_GoesOn(safety_result, intent_value) ==
    IF intent_value = "case_triage" THEN "intake" ELSE "retrieve"

\* the stage that follows the safety gate: a failed gate ends the pipeline,
\* a passed one leads to intake for case_triage and to retrieval otherwise
StageAfterSafetyGate(safety_result, intent_value) ==
    IF ~safety_result.passed THEN "done"
    ELSE IF intent_value = "case_triage" THEN "intake"
    ELSE "retrieve"

\* Stage 1: check_safety_gate(); a failed gate returns the escalation response
CheckSafetyGate ==
    /\ pc = "safety"
    /\ safety' = check_safety_gate(query)
    /\ calls' = Append(calls, "check_safety_gate")
    /\ pc' = StageAfterSafetyGate(safety', intent)
    /\ response' = IF safety'.passed THEN response ELSE Refusal(safety')
    /\ UNCHANGED << index, query, intent, case_fields, intake, retrieval, evidence,
                    confidence, engine_state, generation_attempts >>
    /\ UNCHANGED << indexer_vars, store_vars, rerank_vars, page_vars >>

\* Stage 2: extract_case_fields() + validate_intake(), for case_triage only
StructuredIntake ==
    /\ pc = "intake"
    /\ \E age \in Ages, sex \in Sexes, symptoms \in SymptomLists, duration \in Durations :
          case_fields' = CaseFields(age, sex, symptoms, duration)
    /\ intake' = validate_intake(case_fields', intent)
    /\ calls' = calls \o <<"extract_case_fields", "validate_intake">>
    /\ IF intake'.is_complete
          THEN /\ pc' = "retrieve"
               /\ UNCHANGED response
          ELSE /\ pc' = "done"
               /\ response' = Clarification(intake'.follow_up_questions, <<>>)
    /\ UNCHANGED << index, query, intent, safety, retrieval, evidence, confidence,
                    engine_state, generation_attempts >>
    /\ UNCHANGED << indexer_vars, store_vars, rerank_vars, page_vars >>

\* Stage 3: retrieve_structured_evidence(); a failed embedding call degrades
\* the query to lexical-only scoring
Retrieve ==
    /\ pc = "retrieve"
    /\ \E embedded \in BOOLEAN :
          retrieval' = retrieve_structured_evidence(query, case_fields, index, embedded)
    /\ calls' = calls \o <<"embed", "coarse_routing", "fine_retrieval", "rerank_chunks">>
    /\ engine_state' = "RETRIEVED"
    /\ pc' = "extract"
    /\ UNCHANGED << index, query, intent, safety, case_fields, intake, evidence,
                    confidence, generation_attempts, response >>
    /\ UNCHANGED << indexer_vars, store_vars, rerank_vars, page_vars >>

\* faulty variant: the evidence is extracted but the engine state is not advanced
ExtractEvidence_StateNotAdvanced ==
    /\ pc = "extract"
    /\ evidence' = extract_evidence(retrieval)
    /\ calls' = Append(calls, "extract_evidence")
    /\ pc' = "score"
    /\ UNCHANGED << index, query, intent, safety, case_fields, intake, retrieval,
                    confidence, engine_state, generation_attempts, response >>
    /\ UNCHANGED << indexer_vars, store_vars, rerank_vars, page_vars >>

\* Stage 4: extract_evidence()
ExtractEvidence ==
    /\ pc = "extract"
    /\ evidence' = extract_evidence(retrieval)
    /\ calls' = Append(calls, "extract_evidence")
    /\ engine_state' = "EVIDENCE_EXTRACTED"
    /\ pc' = "score"
    /\ UNCHANGED << index, query, intent, safety, case_fields, intake, retrieval,
                    confidence, generation_attempts, response >>
    /\ UNCHANGED << indexer_vars, store_vars, rerank_vars, page_vars >>

\* Stage 4: compute_confidence()
ComputeConfidence ==
    /\ pc = "score"
    /\ confidence' = compute_confidence(query, evidence, case_fields, retrieval)
    /\ calls' = Append(calls, "compute_confidence")
    /\ engine_state' = "SCORED"
    /\ pc' = "decide"
    /\ UNCHANGED << index, query, intent, safety, case_fields, intake, retrieval,
                    evidence, generation_attempts, response >>
    /\ UNCHANGED << indexer_vars, store_vars, rerank_vars, page_vars >>

\* faulty variant: low confidence is reported as an error
LowConfidenceResponse_AsError(conf, evidence_list, fields) == ErrorResponse(evidence_list)

\* the response of the fail-closed branch: a clarification with follow-ups
LowConfidenceResponse(conf, evidence_list, fields) ==
    Clarification(ClarifyingQuestions(conf, evidence_list, fields), evidence_list)

\* Stage 4: fail-closed logic; below the threshold no answer is generated
Decide ==
    /\ pc = "decide"
    /\ IF FailClosed(confidence, evidence)
          THEN /\ engine_state' = "CLARIFYING"
               /\ response' = LowConfidenceResponse(confidence, evidence, case_fields)
               /\ pc' = "done"
          ELSE /\ engine_state' = "ANSWERED"
               /\ pc' = "generate"
               /\ UNCHANGED response
    /\ UNCHANGED << index, query, intent, safety, case_fields, intake, retrieval,
                    evidence, confidence, generation_attempts, calls >>
    /\ UNCHANGED << indexer_vars, store_vars, rerank_vars, page_vars >>

\* Stage 4: generate_final_response(), the text-generation call with one retry
Generate ==
    /\ pc = "generate"
    /\ generation_attempts' = generation_attempts + 1
    /\ \E succeeded \in BOOLEAN :
          /\ calls' = calls \o <<"generate_final_response",
                                 IF succeeded THEN "generated" ELSE "GenerationServiceError">>
          /\ IF succeeded
             THEN /\ response' = Answer(evidence)
                  /\ pc' = "done"
             ELSE IF MayRetry(generation_attempts')
                     THEN /\ pc' = "generate"
                          /\ UNCHANGED response
                     ELSE /\ response' = ErrorResponse(evidence)
                          /\ pc' = "done"
    /\ UNCHANGED << index, query, intent, safety, case_fields, intake, retrieval,
                    evidence, confidence, engine_state >>
    /\ UNCHANGED << indexer_vars, store_vars, rerank_vars, page_vars >>

\* the transport aborts the request mid-pipeline
Cancel ==
    /\ pc \in InFlight
    /\ pc' = "cancelled"
    /\ UNCHANGED << index, query, intent, safety, case_fields, intake, retrieval,
                    evidence, confidence, engine_state, generation_attempts, response,
                    calls >>
    /\ UNCHANGED << indexer_vars, store_vars, rerank_vars, page_vars >>

Next ==
    \/ Receive
    \/ ClassifyIntent
    \/ CheckSafetyGate
    \/ StructuredIntake
    \/ Retrieve
    \/ ExtractEvidence
    \/ ComputeConfidence
    \/ Decide
    \/ Generate
    \/ Cancel

Spec == Init /\ [][Next]_vars

(***************************************************************************)
(* Index (re)build against concurrent requests.  A build fills a new       *)
(* Index instance step by step, writes the cache and swaps the shared      *)
(* reference; a request takes the reference once and reads through it.     *)
(***************************************************************************)
\* the Index the shared reference points to
InService == IF served = NO_INSTANCE THEN NoIndex ELSE instances[served]

\* faulty variant: the failed build leaves its unfinished instance in service
AbortBuild_PublishesPartial(error) ==
    /\ served' = builder.target
    /\ index' = instances[builder.target]
    /\ builder' = [builder EXCEPT !.state = "idle", !.target = NO_INSTANCE, !.error = error]
    /\ UNCHANGED << request_vars, store_vars, rerank_vars, page_vars, instances, cache, readers >>

\* the build ends with an error: the new instance is dropped, the builder is free
AbortBuild(error) ==
    /\ instances' = SubSeq(instances, 1, builder.target - 1)
    /\ builder' = [builder EXCEPT !.state = "idle", !.target = NO_INSTANCE, !.error = error]
    /\ UNCHANGED << request_vars, store_vars, rerank_vars, page_vars, index, served, cache, readers >>

\* faulty variant: the rebuild works on the instance in service
StartBuild_InPlace(input) ==
    /\ builder.state = "idle"
    /\ served # NO_INSTANCE
    /\ Len(instances) < MaxRebuilds + 1
    /\ instances' = [instances EXCEPT ![served] = EmptyInstance(input.version)]
    /\ builder' = [state |-> "parsing", input |-> input, target |-> served,
                   served_before |-> served, instance_before |-> InService,
                   cache_before |-> cache, error |-> NONE]
    /\ UNCHANGED << request_vars, store_vars, rerank_vars, page_vars, index, served, cache, readers >>

\* faulty variant: a build starts without looking at the mutual-exclusion flag
StartBuild_Unguarded(input) ==
    /\ Len(instances) < MaxRebuilds + 1
    /\ instances' = Append(instances, EmptyInstance(input.version))
    /\ builder' = [state |-> "parsing", input |-> input, target |-> Len(instances) + 1,
                   served_before |-> served, instance_before |-> InService,
                   cache_before |-> cache, error |-> NONE]
    /\ UNCHANGED << request_vars, store_vars, rerank_vars, page_vars, index, served, cache, readers >>

\* build_index starts: the mutual-exclusion flag is taken, a new instance allocated
StartBuild(input) ==
    /\ builder.state = "idle"
    /\ Len(instances) < MaxRebuilds + 1
    /\ instances' = Append(instances, EmptyInstance(input.version))
    /\ builder' = [state |-> "parsing", input |-> input, target |-> Len(instances) + 1,
                   served_before |-> served, instance_before |-> InService,
                   cache_before |-> cache, error |-> NONE]
    /\ UNCHANGED << request_vars, store_vars, rerank_vars, page_vars, index, served, cache, readers >>

\* the heading hierarchy is walked into chunks, or CorpusParseError
ParseDocument ==
    /\ builder.state = "parsing"
    /\ IF CorpusParses(builder.input.doc)
          THEN /\ instances' = [instances EXCEPT ![builder.target].chunks =
                                   ParseChunks(builder.input.doc, builder.input.version)]
               /\ builder' = [builder EXCEPT !.state = "embedding"]
               /\ UNCHANGED << request_vars, store_vars, rerank_vars, page_vars, index, served, cache, readers >>
          ELSE AbortBuild("CorpusParseError")

\* one embedding vector per chunk, or EmbeddingServiceError
EmbedChunks ==
    /\ builder.state = "embedding"
    /\ \E embedded \in BOOLEAN :
          IF embedded
             THEN /\ instances' = [instances EXCEPT ![builder.target].dense =
                                      [k \in DOMAIN instances[builder.target].chunks |->
                                          embed(instances[builder.target].chunks[k].text)]]
                  /\ builder' = [builder EXCEPT !.state = "indexing"]
                  /\ UNCHANGED << request_vars, store_vars, rerank_vars, page_vars, index, served, cache, readers >>
             ELSE AbortBuild("EmbeddingServiceError")

\* the lexical index and the section aggregate index
BuildStructures ==
    /\ builder.state = "indexing"
    /\ LET new == instances[builder.target]
       IN  instances' = [instances EXCEPT
                            ![builder.target].lexical =
                                [k \in DOMAIN new.chunks |-> TermFrequency(new.chunks[k].text)],
                            ![builder.target].sections =
                                {SectionAggregate(new.chunks, new.dense, p) :
                                    p \in SectionPaths(new.chunks)}]
    /\ builder' = [builder EXCEPT !.state = "built"]
    /\ UNCHANGED << request_vars, store_vars, rerank_vars, page_vars, index, served, cache, readers >>

\* the four artifacts of the built Index, keyed by its version_tag
CacheAfterBuild(cached, instance) ==
    [v \in DOMAIN cached \cup {instance.version} |->
        IF v = instance.version THEN CacheArtifacts(instance) ELSE cached[v]]

\* the side effect of a successful build_index
WriteCache ==
    /\ builder.state = "built"
    /\ cache' = CacheAfterBuild(cache, instances[builder.target])
    /\ builder' = [builder EXCEPT !.state = "cached"]
    /\ UNCHANGED << request_vars, store_vars, rerank_vars, page_vars, index, served, instances, readers >>

\* the shared reference is swapped to the new instance; the flag is released
SwapIndex ==
    /\ builder.state = "cached"
    /\ served' = builder.target
    /\ index' = instances[builder.target]
    /\ builder' = IdleBuilder
    /\ UNCHANGED << request_vars, store_vars, rerank_vars, page_vars, instances, cache, readers >>

\* a request reaches retrieval and takes the shared reference
BeginRetrieval(r) ==
    /\ readers[r].pc \in {"idle", "done", "cancelled"}
    /\ served # NO_INSTANCE
    /\ readers' = [readers EXCEPT ![r] = [pc |-> "coarse", ref |-> served, seen |-> NothingSeen]]
    /\ UNCHANGED << request_vars, store_vars, rerank_vars, page_vars, index, served, instances, builder, cache >>

\* coarse_route reads the section aggregate index
CoarseRoute(r) ==
    /\ readers[r].pc = "coarse"
    /\ readers' = [readers EXCEPT ![r].seen.sections = instances[readers[r].ref].sections,
                                  ![r].pc = "fine"]
    /\ UNCHANGED << request_vars, store_vars, rerank_vars, page_vars, index, served, instances, builder, cache >>

\* faulty variant: the query vector is kept in the dense table of the Index
FineRetrieve_KeepsQueryVector(r) ==
    /\ readers[r].pc = "fine"
    /\ readers' = [readers EXCEPT ![r].seen.chunks = instances[readers[r].ref].chunks,
                                  ![r].seen.lexical = instances[readers[r].ref].lexical,
                                  ![r].seen.dense = instances[readers[r].ref].dense,
                                  ![r].pc = "engine"]
    /\ instances' = [instances EXCEPT ![readers[r].ref].dense = Append(@, ZeroVector)]
    /\ UNCHANGED << request_vars, store_vars, rerank_vars, page_vars, index, served, builder, cache >>

\* fine_retrieve reads the chunks, the lexical index and the dense vectors
FineRetrieve(r) ==
    /\ readers[r].pc = "fine"
    /\ readers' = [readers EXCEPT ![r].seen.chunks = instances[readers[r].ref].chunks,
                                  ![r].seen.lexical = instances[readers[r].ref].lexical,
                                  ![r].seen.dense = instances[readers[r].ref].dense,
                                  ![r].pc = "engine"]
    /\ UNCHANGED << request_vars, store_vars, rerank_vars, page_vars, index, served, instances, builder, cache >>

\* Stage 4 and the response: the Index is not read again
FinishRequest(r) ==
    /\ readers[r].pc = "engine"
    /\ readers' = [readers EXCEPT ![r] = [IdleReader EXCEPT !.pc = "done"]]
    /\ UNCHANGED << request_vars, store_vars, rerank_vars, page_vars, index, served, instances, builder, cache >>

\* the transport aborts the request at whatever stage it is in
CancelRequest(r) ==
    /\ readers[r].pc \in {"coarse", "fine", "engine"}
    /\ readers' = [readers EXCEPT ![r] = [IdleReader EXCEPT !.pc = "cancelled"]]
    /\ UNCHANGED << request_vars, store_vars, rerank_vars, page_vars, index, served, instances, builder, cache >>

InitIndex ==
    /\ RequestInit
    /\ IndexerInit
    /\ StoreInit
    /\ NoRerank
    /\ NoPage
    /\ index = InService

NextIndex ==
    \/ \E input \in BuildInputs : StartBuild(input)
    \/ ParseDocument
    \/ EmbedChunks
    \/ BuildStructures
    \/ WriteCache
    \/ SwapIndex
    \/ \E r \in Requests : BeginRetrieval(r)
    \/ \E r \in Requests : CoarseRoute(r)
    \/ \E r \in Requests : FineRetrieve(r)
    \/ \E r \in Requests : FinishRequest(r)
    \/ \E r \in Requests : CancelRequest(r)

SpecIndex == InitIndex /\ [][NextIndex]_vars

(***************************************************************************)
(* The chat store: its actions, the streams and the page reload.           *)
(***************************************************************************)
Streams == DOMAIN streams

\* the conversations created so far: generateId() has served one id for each
\* conversation and two for each message sent
ConversationsCreated == next_id - 1 - 2 * Len(streams)

\* the stream has delivered neither its completion nor its error, and was not dropped
StreamInFlight(s) == streams[s].phase = "open"

\* faulty variant: the patch lands on the last message of the conversation
PatchMessage_LastMessage(conversations, conversationId, messageId, patch) ==
    [i \in DOMAIN conversations |->
        IF conversations[i].id # conversationId THEN conversations[i]
        ELSE [conversations[i] EXCEPT !.messages =
                 [k \in DOMAIN @ |->
                     IF k = Len(@)
                     THEN [f \in DOMAIN @[k] |-> IF f \in DOMAIN patch THEN patch[f] ELSE @[k][f]]
                     ELSE @[k]]]]

\* { ...message, ...patch } on message messageId of conversation conversationId
PatchMessage(conversations, conversationId, messageId, patch) ==
    [i \in DOMAIN conversations |->
        IF conversations[i].id # conversationId THEN conversations[i]
        ELSE [conversations[i] EXCEPT !.messages =
                 [k \in DOMAIN @ |->
                     IF @[k].id = messageId
                     THEN [f \in DOMAIN @[k] |-> IF f \in DOMAIN patch THEN patch[f] ELSE @[k][f]]
                     ELSE @[k]]]]

\* updatedAt: new Date() on conversation conversationId
Touch(conversations, conversationId, now) ==
    [i \in DOMAIN conversations |->
        IF conversations[i].id # conversationId THEN conversations[i]
        ELSE [conversations[i] EXCEPT !.updatedAt = DateOf(now)]]

\* generateTitle: the trimmed message (the inputs are shorter than its 50 characters)
generateTitle(message) == Trim(message)

\* the state createConversation sets
createConversation(state, id, now) ==
    [state EXCEPT !.conversations = <<NewConversation(id, now)>> \o @,
                  !.activeConversationId = id,
                  !.error = NONE,
                  !.isLoading = FALSE]

\* the "New conversation" button
CreateConversation ==
    /\ ConversationsCreated < MaxConversations
    /\ store' = createConversation(store, next_id, next_id)
    /\ next_id' = next_id + 1
    /\ storage' = Persisted(store')
    /\ UNCHANGED << pipeline_vars, indexer_vars, rerank_vars, page_vars, currentAbortController, streams >>

SetActiveConversation(id) ==
    /\ store' = [store EXCEPT !.activeConversationId = id, !.error = NONE]
    /\ storage' = Persisted(store')
    /\ UNCHANGED << pipeline_vars, indexer_vars, rerank_vars, page_vars, currentAbortController, streams, next_id >>

\* conversations.filter(c => c.id !== id)
RECURSIVE WithoutConversation(_, _)
WithoutConversation(conversations, id) ==
    IF conversations = <<>> THEN <<>>
    ELSE (IF Head(conversations).id # id THEN <<Head(conversations)>> ELSE <<>>)
         \o WithoutConversation(Tail(conversations), id)

\* faulty variant: the active conversation id is left as it was
DeleteConversation_KeepsActive(id) ==
    /\ store' = [store EXCEPT !.conversations = WithoutConversation(store.conversations, id)]
    /\ storage' = Persisted(store')
    /\ UNCHANGED << pipeline_vars, indexer_vars, rerank_vars, page_vars, currentAbortController, streams, next_id >>

DeleteConversation(id) ==
    /\ LET newConversations == WithoutConversation(store.conversations, id)
           newActiveId == IF store.activeConversationId = id
                          THEN (IF newConversations # <<>> THEN newConversations[1].id ELSE NO_ID)
                          ELSE store.activeConversationId
       IN  store' = [store EXCEPT !.conversations = newConversations,
                                  !.activeConversationId = newActiveId]
    /\ storage' = Persisted(store')
    /\ UNCHANGED << pipeline_vars, indexer_vars, rerank_vars, page_vars, currentAbortController, streams, next_id >>

\* the messages of a conversation that go into the context of a request
RECURSIVE WithContent(_)
WithContent(messages) ==
    IF messages = <<>> THEN <<>>
    ELSE (IF ~Head(messages).isTyping /\ Head(messages).content # <<>>
             /\ Len(Trim(Head(messages).content)) > 0
          THEN <<Head(messages)>> ELSE <<>>)
         \o WithContent(Tail(messages))

\* faulty variant: the first messages are kept instead of the last
previousMessages_FirstOnes(conversation) ==
    LET kept == Prefix(WithContent(conversation.messages), CONTEXT_WINDOW)
    IN  [i \in DOMAIN kept |->
            [role |-> kept[i].role, content |-> Trim(kept[i].content),
             timestamp |-> IsoStringOf(kept[i].timestamp)]]

previousMessages(conversation) ==
    LET kept == LastN(WithContent(conversation.messages), CONTEXT_WINDOW)
    IN  [i \in DOMAIN kept |->
            [role |-> kept[i].role, content |-> Trim(kept[i].content),
             timestamp |-> IsoStringOf(kept[i].timestamp)]]

\* the endpoint the solution mode maps to
EndpointOf(solutionMode) ==
    CASE solutionMode = "graphrag" -> "graphrag"
      [] solutionMode = "rag" -> "rag"
      [] OTHER -> "custom"

effectiveRouteType(solutionMode, routeType) ==
    CASE solutionMode = "graphrag" -> "graph_rag"
      [] solutionMode = "rag" -> routeType
      [] OTHER -> "custom"

\* the ChatRequest sendMessage hands to sendChatMessageStream; its optional
\* context is a sequence of none (undefined) or one ConversationContext
ChatRequest(state, conversation, content) ==
    [message |-> content,
     route_type |-> effectiveRouteType(state.solutionMode, state.routeType),
     conversation_id |-> conversation.id,
     context |-> IF Len(previousMessages(conversation)) > 0
                 THEN <<[conversation_id |-> conversation.id,
                         messages |-> previousMessages(conversation)]>>
                 ELSE <<>>,
     endpoint |-> EndpointOf(state.solutionMode)]

\* the submit handler of ChatWindow followed by sendMessage up to its await
SendMessage(content) ==
    /\ ~store.isLoading
    /\ Len(streams) < MaxSends
    /\ LET create == store.activeConversationId = NO_ID
           before == IF create THEN createConversation(store, next_id, next_id) ELSE store
           first == IF create THEN next_id + 1 ELSE next_id
           conversationId == before.activeConversationId
       IN  /\ create => ConversationsCreated < MaxConversations
           /\ IF conversationId \notin ConversationIds(before)
              THEN /\ store' = before
                   /\ next_id' = first
                   /\ UNCHANGED << currentAbortController, streams >>
              ELSE LET conversation == FindConversation(before, conversationId)
                       userMessage == UserMessage(first, content, first)
                       streamingMessage == StreamingMessage(first + 1, first + 1)
                   IN  /\ store' =
                              [before EXCEPT
                                  !.isLoading = TRUE,
                                  !.error = NONE,
                                  !.conversations =
                                      [i \in DOMAIN @ |->
                                          IF @[i].id # conversationId THEN @[i]
                                          ELSE [@[i] EXCEPT
                                                   !.title = IF before.conversations[i].messages = <<>>
                                                             THEN generateTitle(content) ELSE @,
                                                   !.messages = @ \o <<userMessage, streamingMessage>>,
                                                   !.updatedAt = DateOf(first + 1)]]]
                       /\ next_id' = first + 2
                       /\ streams' = Append(streams,
                              [conversationId |-> conversationId,
                               assistantMessageId |-> first + 1,
                               request |-> ChatRequest(before, conversation, content),
                               fullContent |-> <<>>,
                               phase |-> "open",
                               aborted |-> FALSE])
                       /\ currentAbortController' = Len(streams) + 1
    /\ storage' = Persisted(store')
    /\ UNCHANGED << pipeline_vars, indexer_vars, rerank_vars, page_vars >>

\* onChunk
StreamChunk(s, chunk) ==
    /\ StreamInFlight(s)
    /\ ~streams[s].aborted
    /\ Len(streams[s].fullContent) < MaxChunks
    /\ LET fullContent == Append(streams[s].fullContent, chunk)
       IN  /\ streams' = [streams EXCEPT ![s].fullContent = fullContent]
           /\ store' = [store EXCEPT !.conversations =
                           PatchMessage(@, streams[s].conversationId,
                                        streams[s].assistantMessageId,
                                        [content |-> fullContent])]
    /\ storage' = Persisted(store')
    /\ UNCHANGED << pipeline_vars, indexer_vars, rerank_vars, page_vars, currentAbortController, next_id >>

\* onComplete
StreamComplete(s, response_type) ==
    /\ StreamInFlight(s)
    /\ ~streams[s].aborted
    /\ streams' = [streams EXCEPT ![s].phase = "closed"]
    /\ store' = [store EXCEPT
                    !.isLoading = FALSE,
                    !.conversations =
                        Touch(PatchMessage(@, streams[s].conversationId,
                                           streams[s].assistantMessageId,
                                           [content |-> streams[s].fullContent,
                                            isTyping |-> FALSE,
                                            response_type |-> response_type]),
                              streams[s].conversationId, next_id)]
    /\ storage' = Persisted(store')
    /\ UNCHANGED << pipeline_vars, indexer_vars, rerank_vars, page_vars, currentAbortController, next_id >>

\* the text onError puts in place of an empty answer
Apology == <<"I apologize, but I encountered an issue">>

\* onError: the request failed, or its signal was aborted
StreamError(s) ==
    /\ StreamInFlight(s)
    /\ streams' = [streams EXCEPT ![s].phase = "closed"]
    /\ store' = [store EXCEPT
                    !.isLoading = FALSE,
                    !.error = "stream_error",
                    !.conversations =
                        Touch(PatchMessage(@, streams[s].conversationId,
                                           streams[s].assistantMessageId,
                                           [content |-> IF streams[s].fullContent # <<>>
                                                        THEN streams[s].fullContent
                                                        ELSE Apology,
                                            isTyping |-> FALSE,
                                            response_type |-> "error"]),
                              streams[s].conversationId, next_id)]
    /\ storage' = Persisted(store')
    /\ UNCHANGED << pipeline_vars, indexer_vars, rerank_vars, page_vars, currentAbortController, next_id >>

\* an aborted request ends without a callback
StreamAborted(s) ==
    /\ StreamInFlight(s)
    /\ streams[s].aborted
    /\ streams' = [streams EXCEPT ![s].phase = "closed"]
    /\ UNCHANGED << pipeline_vars, indexer_vars, rerank_vars, page_vars, store, currentAbortController, storage, next_id >>

\* sendMessage after its await: the controller is cleared
ResolveSend(s) ==
    /\ streams[s].phase = "closed"
    /\ streams' = [streams EXCEPT ![s].phase = "resolved"]
    /\ currentAbortController' = NO_ID
    /\ UNCHANGED << pipeline_vars, indexer_vars, rerank_vars, page_vars, store, storage, next_id >>

\* what stopGeneration leaves behind
stopGeneration(state, controller, sent) ==
    IF controller # NO_ID
    THEN [store |-> [state EXCEPT !.isLoading = FALSE],
          currentAbortController |-> NO_ID,
          streams |-> [sent EXCEPT ![controller].aborted = TRUE]]
    ELSE [store |-> state, currentAbortController |-> controller, streams |-> sent]

StopGeneration ==
    /\ LET after == stopGeneration(store, currentAbortController, streams)
       IN  /\ store' = after.store
           /\ currentAbortController' = after.currentAbortController
           /\ streams' = after.streams
    /\ storage' = Persisted(store')
    /\ UNCHANGED << pipeline_vars, indexer_vars, rerank_vars, page_vars, next_id >>

\* the state setSolutionMode sets
setSolutionMode(state, mode) ==
    IF mode = "custom" /\ state.routeType = "graph_rag"
    THEN [state EXCEPT !.solutionMode = mode, !.routeType = "cancer_recognition"]
    ELSE [state EXCEPT !.solutionMode = mode]

\* the mode buttons of the sidebar, the only caller of setSolutionMode:
\* setSolutionMode, createConversation, then navigate to the new conversation
HandleModeSelect(mode) ==
    /\ ConversationsCreated < MaxConversations
    /\ store' = createConversation(setSolutionMode(store, mode), next_id, next_id)
    /\ next_id' = next_id + 1
    /\ url' = next_id
    /\ storage' = Persisted(store')
    /\ UNCHANGED << pipeline_vars, indexer_vars, rerank_vars, currentAbortController, streams,
                    rendered, compiles >>

SetShowArtifacts(show) ==
    /\ store' = [store EXCEPT !.showArtifacts = show]
    /\ storage' = Persisted(store')
    /\ UNCHANGED << pipeline_vars, indexer_vars, rerank_vars, page_vars, currentAbortController, streams, next_id >>

\* the page is loaded again: the module starts over and the store is rehydrated
\* from the stored item; the requests of the old page are gone
Reload ==
    /\ store' = Rehydrated(storage)
    /\ currentAbortController' = NO_ID
    /\ streams' = [s \in Streams |-> [streams[s] EXCEPT !.phase = "resolved"]]
    /\ rendered' = NotRendered
    /\ compiles' = [c \in DOMAIN compiles |-> [compiles[c] EXCEPT !.phase = "dropped"]]
    /\ UNCHANGED << pipeline_vars, indexer_vars, rerank_vars, storage, next_id, url >>

InitStore ==
    /\ index = build_index(Document, GUIDELINE_VERSION)
    /\ RequestInit
    /\ IndexerInit
    /\ served # NO_INSTANCE
    /\ StoreInit
    /\ NoRerank
    /\ NoPage

NextStore ==
    \/ CreateConversation /\ next_id' <= MaxIds + 1
    \/ \E id \in ConversationIds(store) : SetActiveConversation(id)
    \/ \E id \in ConversationIds(store) : DeleteConversation(id)
    \/ \E content \in Inputs : SendMessage(content) /\ next_id' <= MaxIds + 1
    \/ \E s \in Streams, chunk \in Chunks : StreamChunk(s, chunk)
    \/ \E s \in Streams, response_type \in EventResponseTypes : StreamComplete(s, response_type)
    \/ \E s \in Streams : StreamError(s)
    \/ \E s \in Streams : StreamAborted(s)
    \/ \E s \in Streams : ResolveSend(s)
    \/ StopGeneration
    \/ \E mode \in SolutionModes : HandleModeSelect(mode) /\ next_id' <= MaxIds + 1
    \/ \E show \in BOOLEAN : SetShowArtifacts(show)
    \/ Reload

SpecStore == InitStore /\ [][NextStore]_vars

\* the store under sending, streaming and stopping alone: two conversations,
\* no settings, no selection or deletion, no reload
NextStreams ==
    \/ CreateConversation
    \/ \E content \in Inputs : SendMessage(content)
    \/ \E s \in Streams, chunk \in Chunks : StreamChunk(s, chunk)
    \/ \E s \in Streams, response_type \in EventResponseTypes : StreamComplete(s, response_type)
    \/ \E s \in Streams : StreamError(s)
    \/ \E s \in Streams : StreamAborted(s)
    \/ \E s \in Streams : ResolveSend(s)
    \/ StopGeneration

SpecStreams == InitStore /\ [][NextStreams]_vars

(***************************************************************************)
(* rerank on the scored chunks of one retrieval.                           *)
(***************************************************************************)
\* most equal chunks in the middle of the scored list
MaxFiller == 10

\* boosted combined scores (in hundredths) and section depths of the chunks
\* that vary; 55 lies SCORE_MARGIN below 70, and 54 one hundredth further
ScoreValues == {0, 40, 54, 55, 70}

SectionLevels == {1, 2, 3}

\* the fields of a scored chunk that rerank reads
ScoredShape(score, level) == [combined_score |-> score, section_level |-> level]

\* none or one chunk, of any score and depth
OneOrNone ==
    {<<>>} \cup {<<ScoredShape(v, d)>> : v \in ScoreValues, d \in SectionLevels}

\* n chunks of one score at depth 2
Filler(n, score) == [i \in 1..n |-> ScoredShape(score, 2)]

\* the scored chunks of fine_retrieve, the chunk identifiers in index order
Scored(shapes) ==
    [i \in DOMAIN shapes |->
        [chunk |-> [chunk_id |-> i, section_level |-> shapes[i].section_level],
         combined_score |-> shapes[i].combined_score]]

\* the lists rerank is called with: a chunk or none, up to MaxFiller equal
\* chunks, a chunk or none
ScoredLists ==
    {Scored(first \o Filler(n, v) \o last) :
        first \in OneOrNone, last \in OneOrNone, n \in 0..MaxFiller, v \in {55, 70}}

InitRerank ==
    /\ index = build_index(Document, GUIDELINE_VERSION)
    /\ RequestInit
    /\ IndexerInit
    /\ served # NO_INSTANCE
    /\ StoreInit
    /\ NoPage
    /\ scored_chunks \in ScoredLists
    /\ ranked_chunks = <<>>
    /\ rerank_pc = "scored"

\* rerank_chunks of Stage 3
RerankChunks ==
    /\ rerank_pc = "scored"
    /\ ranked_chunks' = rerank(scored_chunks)
    /\ rerank_pc' = "ranked"
    /\ UNCHANGED << pipeline_vars, indexer_vars, store_vars, page_vars, scored_chunks >>

NextRerank == RerankChunks

SpecRerank == InitRerank /\ [][NextRerank]_vars

(***************************************************************************)
(* sendMessage in a conversation that already holds messages.              *)
(***************************************************************************)
\* most plain messages in the middle of the conversation
MaxHistory == 11

\* the contents a message of the conversation may hold: text, nothing (an
\* answer that ended without a chunk), white space only, text in white space
HistoryContents == {<<"text">>, <<>>, <<" ">>, <<" ", "text", " ">>}

\* role and content of none or one message
OneMessageOrNone ==
    {<<>>} \cup {<<[role |-> r, content |-> c]>> : r \in {"user", "assistant"},
                                                  c \in HistoryContents}

\* n plain messages, user and assistant in turn
PlainHistory(n) ==
    [k \in 1..n |-> [role |-> IF k % 2 = 1 THEN "user" ELSE "assistant",
                     content |-> <<"text">>]]

\* the messages of the conversation: ids and times of an earlier session, the
\* k-th message written at time k
HistoryMessages(shapes) ==
    [k \in DOMAIN shapes |->
        [id |-> 100 + k, role |-> shapes[k].role, content |-> shapes[k].content,
         timestamp |-> DateOf(k), isTyping |-> FALSE, response_type |-> NONE]]

Histories ==
    {HistoryMessages(first \o PlainHistory(n) \o last) :
        first \in OneMessageOrNone, last \in OneMessageOrNone, n \in 0..MaxHistory}

\* the store with one conversation of earlier messages, active; with
\* `streaming`, its last request is still in flight (its placeholder typing)
\* and isLoading was reset by a createConversation since
InitContext ==
    /\ index = build_index(Document, GUIDELINE_VERSION)
    /\ RequestInit
    /\ IndexerInit
    /\ served # NO_INSTANCE
    /\ NoRerank
    /\ NoPage
    /\ \E history \in Histories, streaming \in BOOLEAN :
          LET placeholder == [StreamingMessage(2, 100) EXCEPT !.content = <<"text">>]
              messages == IF streaming THEN Append(history, placeholder) ELSE history
              conversation == [NewConversation(100, 0) EXCEPT !.title = <<"text">>,
                                                              !.messages = messages]
          IN  /\ store = [InitialChatState EXCEPT !.conversations = <<conversation>>,
                                                  !.activeConversationId = 100]
              /\ streams = IF streaming
                           THEN <<[conversationId |-> 100, assistantMessageId |-> 2,
                                   request |-> [message |-> <<"text">>,
                                                route_type |-> "cancer_recognition",
                                                conversation_id |-> 100,
                                                context |-> <<>>,
                                                endpoint |-> "rag"],
                                   fullContent |-> <<"text">>, phase |-> "open",
                                   aborted |-> FALSE]>>
                           ELSE <<>>
              /\ next_id = 1 + 2 * Len(streams)
    /\ currentAbortController = Len(streams)
    /\ storage = Persisted(store)

NextContext == \E content \in Inputs : SendMessage(content)

SpecContext == InitContext /\ [][NextContext]_vars

(***************************************************************************)
(* The pathway tool of an assistant message and its compile request.       *)
(***************************************************************************)
MaxCompiles == 2

\* the message handlePathwaySubmit makes of a CompileResponse; its id
\* pathway-<time> is no id of generateId
PathwayMessage(compile, meets_criteria, now) ==
    [id |-> 0 - compile, role |-> "assistant", content |-> <<"text">>,
     timestamp |-> DateOf(now), isTyping |-> FALSE,
     response_type |-> IF meets_criteria THEN "answer" ELSE "clarification"]

\* the state addPathwayResponse sets
addPathwayResponse(state, message, now) ==
    IF state.activeConversationId = NO_ID THEN state
    ELSE [state EXCEPT !.conversations =
             [i \in DOMAIN @ |->
                 IF @[i].id # state.activeConversationId THEN @[i]
                 ELSE [@[i] EXCEPT !.messages = Append(@, message),
                                   !.updatedAt = DateOf(now)]]]

\* the messages that show the pathway tool: answers of a completed stream
\* (pathway_available comes with the completion event)
OffersPathway(message) ==
    /\ message.role = "assistant"
    /\ ~message.isTyping
    /\ message.response_type \in EventResponseTypes
    /\ \E s \in Streams : streams[s].assistantMessageId = message.id

\* PathwayTool.handleSubmit up to its await, in a message of the conversation shown
SubmitPathway ==
    /\ Len(compiles) < MaxCompiles
    /\ store.activeConversationId \in ConversationIds(store)
    /\ \E message \in Range(FindConversation(store, store.activeConversationId).messages) :
          /\ OffersPathway(message)
          /\ compiles' = Append(compiles,
                 [conversationId |-> store.activeConversationId,
                  messageId |-> message.id,
                  meets_criteria |-> FALSE,
                  phase |-> "pending"])
    /\ UNCHANGED << pipeline_vars, indexer_vars, store_vars, rerank_vars, url, rendered >>

\* compileRecommendation resolves: onSubmit, handlePathwaySubmit, addPathwayResponse
CompileResponse(c, meets_criteria) ==
    /\ compiles[c].phase = "pending"
    /\ compiles' = [compiles EXCEPT ![c].phase = "done", ![c].meets_criteria = meets_criteria]
    /\ store' = addPathwayResponse(store, PathwayMessage(c, meets_criteria, next_id), next_id)
    /\ storage' = Persisted(store')
    /\ UNCHANGED << pipeline_vars, indexer_vars, rerank_vars, currentAbortController, streams,
                    next_id, url, rendered >>

\* compileRecommendation rejects: the tool shows the error, the store is not touched
CompileFailed(c) ==
    /\ compiles[c].phase = "pending"
    /\ compiles' = [compiles EXCEPT ![c].phase = "failed"]
    /\ UNCHANGED << pipeline_vars, indexer_vars, store_vars, rerank_vars, url, rendered >>

\* the store with the pathway tool: conversations are created, selected and
\* deleted while answers stream in and compile requests are pending
NextPathway ==
    \/ CreateConversation /\ next_id' <= MaxIds + 1
    \/ \E id \in ConversationIds(store) : SetActiveConversation(id)
    \/ \E id \in ConversationIds(store) : DeleteConversation(id)
    \/ \E content \in Inputs : SendMessage(content) /\ next_id' <= MaxIds + 1
    \/ \E s \in Streams, chunk \in Chunks : StreamChunk(s, chunk)
    \/ \E s \in Streams, response_type \in EventResponseTypes : StreamComplete(s, response_type)
    \/ \E s \in Streams : StreamError(s)
    \/ \E s \in Streams : ResolveSend(s)
    \/ SubmitPathway
    \/ \E c \in DOMAIN compiles, meets_criteria \in BOOLEAN : CompileResponse(c, meets_criteria)
    \/ \E c \in DOMAIN compiles : CompileFailed(c)

SpecPathway == InitStore /\ [][NextPathway]_vars

(***************************************************************************)
(* ChatPage: the route and the effects that keep it and the store in step. *)
(***************************************************************************)
\* the state setActiveConversation sets
setActiveConversation(state, id) ==
    [state EXCEPT !.activeConversationId = id, !.error = NONE]

\* what a render of ChatPage reads from useParams and useChatStore
Snapshot ==
    [mounted |-> TRUE, conversationId |-> url,
     activeConversationId |-> store.activeConversationId,
     conversations |-> store.conversations]

\* the page has to render: it is not mounted, or the route or the store changed
RenderDue == rendered # Snapshot

\* a render of ChatPage and its two effects, each run when one of its
\* dependencies changed, both with the values of that render: the first
\* selects the conversation of the route or leaves a route that names none,
\* the second navigates to the active conversation
CommitChatPage ==
    /\ RenderDue
    /\ LET seen == Snapshot
           syncs == \/ ~rendered.mounted
                    \/ rendered.conversationId # seen.conversationId
                    \/ rendered.conversations # seen.conversations
           updates == \/ ~rendered.mounted
                      \/ rendered.activeConversationId # seen.activeConversationId
                      \/ rendered.conversationId # seen.conversationId
           exists == seen.conversationId \in ConversationIds(store)
           selects == syncs /\ seen.conversationId # NO_ID /\ exists
           redirects == syncs /\ seen.conversationId # NO_ID /\ ~exists
           toActive == /\ updates
                       /\ seen.activeConversationId # NO_ID
                       /\ seen.activeConversationId # seen.conversationId
           toRoot == /\ updates
                     /\ seen.activeConversationId = NO_ID
                     /\ seen.conversationId # NO_ID
       IN  /\ store' = IF selects THEN setActiveConversation(store, seen.conversationId)
                       ELSE store
           /\ url' = IF toActive THEN seen.activeConversationId
                     ELSE IF toRoot \/ redirects THEN NO_ID
                     ELSE url
           /\ rendered' = seen
    /\ storage' = Persisted(store')
    /\ UNCHANGED << pipeline_vars, indexer_vars, rerank_vars, currentAbortController, streams,
                    next_id, compiles >>

\* a render of ChatPage and its single effect, run when the route, the active
\* conversation or the conversations changed
CommitChatPageSingle ==
    /\ RenderDue
    /\ LET seen == Snapshot
           exists == seen.conversationId \in ConversationIds(store)
       IN  /\ store' = IF /\ seen.conversationId # NO_ID
                          /\ exists
                          /\ seen.activeConversationId # seen.conversationId
                       THEN setActiveConversation(store, seen.conversationId)
                       ELSE store
           /\ url' = IF seen.conversationId # NO_ID
                     THEN (IF exists THEN url ELSE NO_ID)
                     ELSE (IF seen.activeConversationId # NO_ID
                           THEN seen.activeConversationId ELSE url)
           /\ rendered' = seen
    /\ storage' = Persisted(store')
    /\ UNCHANGED << pipeline_vars, indexer_vars, rerank_vars, currentAbortController, streams,
                    next_id, compiles >>

\* the user opens /chat or /chat/:id: the page loads, the store is rehydrated
OpenUrl(id) ==
    /\ url' = id
    /\ store' = Rehydrated(storage)
    /\ currentAbortController' = NO_ID
    /\ streams' = [s \in Streams |-> [streams[s] EXCEPT !.phase = "resolved"]]
    /\ rendered' = NotRendered
    /\ compiles' = [c \in DOMAIN compiles |-> [compiles[c] EXCEPT !.phase = "dropped"]]
    /\ UNCHANGED << pipeline_vars, indexer_vars, rerank_vars, storage, next_id >>

\* what the user does on a page that has settled
UserAction ==
    /\ ~RenderDue
    /\ \/ \E id \in NO_ID .. next_id - 1 : OpenUrl(id)
       \/ \E id \in ConversationIds(store) : SetActiveConversation(id)
       \/ \E id \in ConversationIds(store) : DeleteConversation(id)
       \/ CreateConversation /\ next_id' <= MaxIds + 1
       \/ HandleModeSelect(store.solutionMode) /\ next_id' <= MaxIds + 1
       \/ \E content \in Inputs : SendMessage(content) /\ next_id' <= MaxIds + 1

\* the stream callbacks, at any time
StreamEvent ==
    \/ \E s \in Streams, chunk \in Chunks : StreamChunk(s, chunk)
    \/ \E s \in Streams, response_type \in EventResponseTypes : StreamComplete(s, response_type)
    \/ \E s \in Streams : ResolveSend(s)

NextPage ==
    \/ UserAction
    \/ StreamEvent
    \/ CommitChatPage

\* a due render is made and its effects run
SpecPage == InitStore /\ [][NextPage]_vars /\ WF_vars(CommitChatPage)

NextPageSingle ==
    \/ UserAction
    \/ StreamEvent
    \/ CommitChatPageSingle

SpecPageSingle == InitStore /\ [][NextPageSingle]_vars /\ WF_vars(CommitChatPageSingle)

(***************************************************************************)
(* Properties.                                                             *)
(***************************************************************************)
CallsMade == Range(calls)

\* the calls of structured intake, retrieval, embedding and text generation
DownstreamCalls ==
    {"extract_case_fields", "validate_intake", "embed", "coarse_routing", "fine_retrieval",
     "rerank_chunks", "extract_evidence", "compute_confidence", "generate_final_response"}

RetrievalCalls == {"embed", "coarse_routing", "fine_retrieval", "rerank_chunks"}

\* C1: fail-closed. A request whose confidence is below the threshold, or whose
\* evidence list is empty, never starts answer generation and never gets an
\* ANSWER: once finished its response is CLARIFICATION or REFUSAL.
C1_FailClosed ==
    ((confidence.scored /\ confidence.overall < CONFIDENCE_THRESHOLD) \/ evidence = <<>>)
        => /\ generation_attempts = 0
           /\ "generate_final_response" \notin CallsMade
           /\ response.response_type # "answer"
           /\ pc = "done" => response.response_type \in {"clarification", "refusal"}

\* a finished request with evidence whose confidence is below the threshold
C1_Witness ==
    /\ pc = "done"
    /\ confidence.scored
    /\ confidence.overall < CONFIDENCE_THRESHOLD
    /\ evidence # <<>>
    /\ response.response_type = "clarification"

\* C2: the safety gate overrides intent. The gate is checked on every request
\* that gets past Stage 1, whatever the intent; when a red-flag rule fires on
\* the query the finished request is a REFUSAL carrying the escalation message.
C2_SafetyGateOverridesIntent ==
    /\ pc \in {"intake", "retrieve", "extract", "score", "decide", "generate", "done"}
          => safety.checked /\ "check_safety_gate" \in CallsMade
    /\ (pc = "done" /\ RedFlags(query) # {})
          => /\ response.response_type = "refusal"
             /\ response.message = EscalationMessage(RedFlags(query))
             /\ response.message # NONE

\* a case_triage query with a diagnostic request, refused
C2_Witness ==
    /\ pc = "done"
    /\ intent = "case_triage"
    /\ "diagnostic_request" \in RedFlags(query)
    /\ response.response_type = "refusal"

\* C3: after check_safety_gate returned passed = false the request is over at
\* once: no intake, retrieval, embedding or generation call is ever made for it
\* and it never reaches the Evidence & Confidence Engine.
C3_NothingAfterFailedGate ==
    (safety.checked /\ ~safety.passed)
        => /\ pc = "done"
           /\ response.response_type = "refusal"
           /\ CallsMade \cap DownstreamCalls = {}
           /\ calls = <<"classify_intent", "check_safety_gate">>
           /\ engine_state = NONE
           /\ generation_attempts = 0

\* a treatment request classified as case_triage, stopped at the gate
C3_Witness ==
    /\ safety.checked
    /\ ~safety.passed
    /\ "treatment_request" \in safety.red_flags
    /\ intent = "case_triage"
    /\ pc = "done"

\* C4: intake completeness gating. A case_triage request that passed the gate
\* and whose extracted CaseFields have no age never reaches retrieval; it ends
\* as a CLARIFICATION whose follow-up questions ask for the age.
C4_IntakeGating ==
    (/\ intent = "case_triage"
     /\ safety.checked /\ safety.passed
     /\ "extract_case_fields" \in CallsMade
     /\ case_fields.age = NO_AGE)
        => /\ pc = "done"
           /\ response.response_type = "clarification"
           /\ FollowUpQuestion("age") \in Range(response.follow_up_questions)
           /\ CallsMade \cap RetrievalCalls = {}
           /\ engine_state = NONE

\* a triage case with symptoms but no age, sent back for the age
C4_Witness ==
    /\ intent = "case_triage"
    /\ safety.passed
    /\ "validate_intake" \in CallsMade
    /\ case_fields.age = NO_AGE
    /\ case_fields.symptoms # <<>>
    /\ response.response_type = "clarification"

\* the words of a content block of the source document
IsDocumentBlock(text) == \E n \in DOMAIN Document : Document[n].level = 0 /\ Document[n].words = text

\* an evidence list whose items carry the indexed text of their chunk
Verbatim(evidence_list) ==
    \A i \in DOMAIN evidence_list :
        /\ evidence_list[i].chunk_id \in DOMAIN index.chunks
        /\ evidence_list[i].text = index.chunks[evidence_list[i].chunk_id].text
        /\ IsDocumentBlock(evidence_list[i].text)

\* C5: evidence verbatim round trip. Every Evidence item extracted or returned
\* in a response carries exactly the text indexed for its chunk identifier,
\* itself a block of the source document.
C5_EvidenceVerbatim == Verbatim(evidence) /\ Verbatim(response.evidence)

\* a finished request that returns at least two evidence items
C5_Witness ==
    /\ pc = "done"
    /\ Len(response.evidence) >= 2
    /\ response.evidence = evidence

\* the terminal states of the Evidence & Confidence Engine
TerminalStates == {"ANSWERED", "CLARIFYING", "REFUSED"}

\* the transitions of the engine's state machine
EngineEdges ==
    {<<NONE, "RETRIEVED">>, <<"RETRIEVED", "EVIDENCE_EXTRACTED">>,
     <<"EVIDENCE_EXTRACTED", "SCORED">>}
    \cup {<<"SCORED", t>> : t \in TerminalStates}

\* a step keeps the engine state, moves it along an edge, or starts a new request
C7_EngineStep ==
    \/ engine_state' = engine_state
    \/ <<engine_state, engine_state'>> \in EngineEdges
    \/ pc' = "classify" /\ engine_state' = NONE

\* C7: a request that reaches the engine goes RETRIEVED, EVIDENCE_EXTRACTED,
\* SCORED in that order and then into one terminal state, which it never
\* leaves; a finished request that reached the engine is in a terminal state.
C7_EngineStateMachine ==
    /\ []((pc = "done" /\ engine_state # NONE) => engine_state \in TerminalStates)
    /\ []((engine_state \in TerminalStates) => confidence.scored /\ pc \in {"generate", "done", "cancelled"})
    /\ [][C7_EngineStep]_vars

\* a finished request in the terminal state CLARIFYING
C7_Witness ==
    /\ pc = "done"
    /\ engine_state = "CLARIFYING"
    /\ calls = <<"classify_intent", "check_safety_gate", "embed", "coarse_routing",
                 "fine_retrieval", "rerank_chunks", "extract_evidence", "compute_confidence">>

\* what an empty RetrievalResult leads to, but for the value of overall
EmptyRetrievalOutcome ==
    /\ confidence.factors.retrieval_strength = 0
    /\ confidence.factors.evidence_specificity = 0
    /\ confidence.factors.coverage = 0
    /\ ~confidence.threshold_met
    /\ pc # "generate"
    /\ pc = "done" =>
          /\ response.response_type = "clarification"
          /\ response.follow_up_questions = <<"no_relevant_guidance_found_please_rephrase">>
          /\ response.evidence = <<>>

C9_ErrorOnlyAfterServiceFailure ==
    /\ response.response_type = "error" => "GenerationServiceError" \in CallsMade
    /\ pc = "done" => response.response_type \in ResponseType
    /\ (pc = "done" /\ safety.checked /\ ~safety.passed)
          => response.response_type = "refusal"
    /\ (pc = "done" /\ "validate_intake" \in CallsMade /\ ~intake.is_complete)
          => response.response_type = "clarification"
    /\ (pc = "done" /\ confidence.scored /\ ~confidence.threshold_met)
          => response.response_type = "clarification"

\* an ERROR response after failed generation calls
C9_Witness ==
    /\ pc = "done"
    /\ response.response_type = "error"
    /\ "GenerationServiceError" \in CallsMade
    /\ confidence.threshold_met

\* the generation calls of the request and those that failed
GenerationCalls == Cardinality({i \in DOMAIN calls : calls[i] = "generate_final_response"})

GenerationFailures == Cardinality({i \in DOMAIN calls : calls[i] = "GenerationServiceError"})

\* C10: the text-generation call is attempted at most twice per request; two
\* failures end in ERROR with no generated content, one failure followed by a
\* successful retry ends in ANSWER.
C10_GenerationRetry ==
    /\ generation_attempts <= 2
    /\ GenerationCalls = generation_attempts
    /\ (pc = "done" /\ GenerationFailures = 2)
          => /\ response.response_type = "error"
             /\ response.message # "generated_answer"
             /\ response.citations = <<>>
    /\ (pc = "done" /\ GenerationFailures = 1)
          => /\ response.response_type = "answer"
             /\ generation_attempts = 2
    /\ response.response_type = "error" => GenerationFailures = 2

\* both generation attempts failed and the request ended in ERROR
C10_Witness ==
    /\ pc = "done"
    /\ generation_attempts = 2
    /\ GenerationFailures = 2
    /\ response.response_type = "error"

\* a step of a request: one of the concurrent requests moved
RequestStep == readers' # readers

\* a request that is reading the Index
Reading(r) == readers[r].pc \in {"coarse", "fine", "engine"}

\* C11: under any interleaving of concurrent requests, cancelled ones included,
\* no step of a request changes the shared Index: the shared reference, every
\* Index instance and the Index in service are the same before and after it.
C11_RequestsLeaveIndexUnchanged ==
    [][RequestStep => /\ served' = served
                      /\ instances' = instances
                      /\ index' = index
                      /\ cache' = cache]_vars

\* one request was cancelled mid-retrieval while another one is reading
C11_Witness ==
    /\ \E r \in Requests : readers[r].pc = "cancelled"
    /\ \E r \in Requests : readers[r].pc = "fine" /\ readers[r].seen.sections # {}
    /\ served # NO_INSTANCE

\* the Indexes build_index yields for the documents of the model
BuiltIndexes ==
    {build_index(input.doc, input.version) : input \in {i \in BuildInputs : CorpusParses(i.doc)}}

\* everything a request has read so far comes from one complete Index
SeenFrom(seen, whole) ==
    /\ seen.sections \in {{}, whole.sections}
    /\ seen.chunks \in {<<>>, whole.chunks}
    /\ seen.lexical \in {<<>>, whole.lexical}
    /\ seen.dense \in {<<>>, whole.dense}

\* reads are never blocked: every step of a request that is due can be taken
ReadsNotBlocked ==
    \A r \in Requests :
        /\ (readers[r].pc \in {"idle", "done", "cancelled"} /\ served # NO_INSTANCE)
              => ENABLED BeginRetrieval(r)
        /\ readers[r].pc = "coarse" => ENABLED CoarseRoute(r)
        /\ readers[r].pc = "fine" => ENABLED FineRetrieve(r)
        /\ readers[r].pc = "engine" => ENABLED FinishRequest(r)

\* a request that starts to read takes the Index in service at that moment
ReadsTakeIndexInService ==
    \A r \in Requests :
        (~Reading(r) /\ readers'[r].pc = "coarse")
            => /\ readers'[r].ref = served
               /\ instances[readers'[r].ref] = index

\* C12: while a rebuild is in progress requests are not blocked and read the
\* complete previous Index; after the swap a new read takes the complete new
\* Index; what a request has read is never partial nor a mixture of two Indexes.
C12_RebuildSwapsAtomically ==
    /\ [](builder.state # "idle"
            => /\ ReadsNotBlocked
               /\ served = builder.served_before
               /\ InService = builder.instance_before)
    /\ [](served # NO_INSTANCE => InService \in BuiltIndexes /\ index = InService)
    /\ [](\A r \in Requests :
             Reading(r) => /\ instances[readers[r].ref] \in BuiltIndexes
                           /\ SeenFrom(readers[r].seen, instances[readers[r].ref])
                           /\ \E whole \in BuiltIndexes : SeenFrom(readers[r].seen, whole))
    /\ [][ReadsTakeIndexInService]_vars

\* a request still reads the previous Index after the swap while another request
\* reads the new one
C12_Witness ==
    /\ served = 2
    /\ \E r \in Requests :
          /\ readers[r].pc = "engine"
          /\ readers[r].ref = 1
          /\ readers[r].seen.chunks = instances[1].chunks
    /\ \E r \in Requests :
          /\ readers[r].pc = "engine"
          /\ readers[r].ref = 2
          /\ readers[r].seen.chunks = instances[2].chunks
    /\ instances[1] # instances[2]

\* C13: index build is all-or-nothing. After build_index failed with
\* CorpusParseError or EmbeddingServiceError the Index in service is the one of
\* before the build (or none), and no cache artifact was written for the build.
C13_BuildAllOrNothing ==
    /\ builder.error # NONE
          => /\ builder.error \in {"CorpusParseError", "EmbeddingServiceError"}
             /\ builder.state = "idle"
             /\ served = builder.served_before
             /\ InService = builder.instance_before
             /\ index = builder.instance_before
             /\ cache = builder.cache_before
    /\ \A v \in DOMAIN cache :
          \E whole \in BuiltIndexes : whole.version = v /\ cache[v] = CacheArtifacts(whole)
    /\ builder.state \in {"parsing", "embedding", "indexing", "built"}
          => cache = builder.cache_before

\* a rebuild failed in the embedding call while an Index was in service
C13_Witness ==
    /\ builder.error = "EmbeddingServiceError"
    /\ builder.input.version = REVISED_VERSION
    /\ served = 1
    /\ REVISED_VERSION \notin DOMAIN cache
    /\ \E r \in Requests : readers[r].pc = "fine"

(***************************************************************************)
(* The chat store: response types, requests, the stop button, persistence. *)
(***************************************************************************)
\* every message of every conversation of a state
MessagesOf(state) ==
    UNION {{state.conversations[i].messages[k] : k \in DOMAIN state.conversations[i].messages}
           : i \in DOMAIN state.conversations}

\* ResponseTypeIndicator: the labels of its config, and config[type] || config.answer
IndicatorLabels ==
    [answer |-> "Grounded Answer", clarification |-> "Needs More Info",
     refusal |-> "Out of Scope", error |-> "Error"]

ResponseTypeIndicator(type) ==
    IF type \in DOMAIN IndicatorLabels THEN IndicatorLabels[type] ELSE IndicatorLabels["answer"]

\* the indicator ChatWindow renders under a message, NONE when it renders none
IndicatorShown(message) ==
    IF message.role # "user" /\ message.response_type # NONE
    THEN ResponseTypeIndicator(message.response_type)
    ELSE NONE

\* C14: the response types are closed: no message of the store holds a
\* response type outside answer, clarification, refusal, error (a completion
\* event with another type is not accepted), and a message is shown with the
\* 'Grounded Answer' indicator only if its response type is answer.
C14_ResponseTypesClosed ==
    \A m \in MessagesOf(store) :
        /\ m.response_type # NONE => m.response_type \in ResponseType
        /\ IndicatorShown(m) = "Grounded Answer" => m.response_type = "answer"

\* C15: queries are stateless: every chat request sendMessage has sent carries
\* no conversation history (its context is absent), whatever was said before
\* in the conversation.
C15_RequestsCarryNoHistory ==
    \A s \in Streams : streams[s].request.context = <<>>

\* C16: the stop button: while a streamed response is in flight,
\* stopGeneration leaves the signal of every in-flight request aborted and
\* isLoading false; with no stream in flight it leaves the store as it is.
C16_StopAbortsInFlight ==
    LET after == stopGeneration(store, currentAbortController, streams)
    IN  IF \E s \in Streams : StreamInFlight(s)
        THEN /\ \A s \in Streams : StreamInFlight(s) => after.streams[s].aborted
             /\ ~after.store.isLoading
        ELSE after.store = store

\* what a reload is to bring back of a state
IsFinal(message) == ~message.isTyping

Restored(state) ==
    [conversations |->
        [i \in DOMAIN state.conversations |->
            [state.conversations[i] EXCEPT !.messages = SelectSeq(@, IsFinal)]],
     activeConversationId |-> state.activeConversationId,
     isLoading |-> FALSE,
     error |-> NONE,
     solutionMode |-> state.solutionMode,
     routeType |-> state.routeType,
     showArtifacts |-> state.showArtifacts]

\* C17: persistence round trip: rehydrating the stored item gives back every
\* conversation with its non-typing messages in order (dates as Dates again)
\* and activeConversationId, solutionMode, routeType and showArtifacts; typing
\* messages are dropped, isLoading is false and error is null.
C17_PersistRoundTrip == Rehydrated(storage) = Restored(store)

\* reached: after a reload in mid-stream, a conversation holds the user
\* message without the placeholder of that request, in a mode other than the
\* default one
C17_Witness ==
    /\ store.solutionMode # InitialChatState.solutionMode
    /\ store = Rehydrated(storage)
    /\ \E s \in Streams :
          /\ streams[s].conversationId \in ConversationIds(store)
          /\ LET messages == FindConversation(store, streams[s].conversationId).messages
             IN  /\ \A k \in DOMAIN messages : messages[k].id # streams[s].assistantMessageId
                 /\ \E k \in DOMAIN messages :
                       /\ messages[k].id = streams[s].assistantMessageId - 1
                       /\ messages[k].timestamp = DateOf(messages[k].id)

(***************************************************************************)
(* The pipeline: evidence provenance and intake validation.                *)
(***************************************************************************)
\* the chunk identifiers of the retained chunks, and of an evidence list
RetainedIds == [i \in DOMAIN retrieval.rule_chunks |-> retrieval.rule_chunks[i].chunk.chunk_id]

EvidenceIds(evidence_list) == [i \in DOMAIN evidence_list |-> evidence_list[i].chunk_id]

\* one item per retained chunk, in the order retained, each carrying the
\* section path, recommendation id and score of its chunk
FromRetained(evidence_list) ==
    /\ EvidenceIds(evidence_list) = RetainedIds
    /\ \A i, j \in DOMAIN evidence_list :
          evidence_list[i].chunk_id = evidence_list[j].chunk_id => i = j
    /\ \A i \in DOMAIN evidence_list :
          /\ evidence_list[i].section_path = retrieval.rule_chunks[i].chunk.metadata.section_path
          /\ evidence_list[i].rule_id = retrieval.rule_chunks[i].chunk.metadata.rule_id
          /\ evidence_list[i].relevance_score = retrieval.rule_chunks[i].combined_score

\* C18: evidence provenance. The evidence extracted for a request, and the
\* evidence list of its response, hold exactly one Evidence item per chunk the
\* Hybrid Retriever retained for that request and no item of any other chunk.
C18_EvidenceFromRetainedChunks ==
    /\ "extract_evidence" \in CallsMade => FromRetained(evidence)
    /\ "extract_evidence" \notin CallsMade => evidence = <<>>
    /\ response.response_type # NONE => FromRetained(response.evidence)

\* a finished request whose retriever retained a chunk with a recommendation
\* id and one without, each with its evidence item in the response
C18_Witness ==
    /\ pc = "done"
    /\ response.response_type # NONE
    /\ \E i, j \in DOMAIN retrieval.rule_chunks :
          /\ retrieval.rule_chunks[i].chunk.metadata.rule_id # NONE
          /\ retrieval.rule_chunks[j].chunk.metadata.rule_id = NONE
    /\ Len(response.evidence) = Len(retrieval.rule_chunks)

\* how many of the follow-up questions ask for a field
TimesAsked(questions, field) ==
    Cardinality({i \in DOMAIN questions : questions[i] = FollowUpQuestion(field)})

TopScore == CHOOSE v \in {scored_chunks[i].combined_score : i \in DOMAIN scored_chunks} :
                \A i \in DOMAIN scored_chunks : scored_chunks[i].combined_score <= v

\* the deepest section among the chunks of the highest score
TopLevel ==
    LET top == {i \in DOMAIN scored_chunks : scored_chunks[i].combined_score = TopScore}
    IN  CHOOSE d \in {scored_chunks[i].chunk.section_level : i \in top} :
            \A i \in top : scored_chunks[i].chunk.section_level <= d

\* C20: rerank returns scored chunks of its input, each at most once, sorted by
\* descending boosted combined_score with the deeper section first among equal
\* scores; at most MAX_RESULTS (10) of them; none more than SCORE_MARGIN (0.15)
\* below the top score; a chunk of at least that score is left out only when
\* the maximum is reached; and for a non-empty input the result starts with a
\* top-scoring chunk.
C20_RerankOrderCapMargin ==
    rerank_pc = "ranked" =>
        /\ \A n \in DOMAIN ranked_chunks :
              \E i \in DOMAIN scored_chunks : ranked_chunks[n] = scored_chunks[i]
        /\ \A m, n \in DOMAIN ranked_chunks :
              m < n =>
                 /\ ranked_chunks[m] # ranked_chunks[n]
                 /\ \/ ranked_chunks[m].combined_score > ranked_chunks[n].combined_score
                    \/ /\ ranked_chunks[m].combined_score = ranked_chunks[n].combined_score
                       /\ ranked_chunks[m].chunk.section_level
                             >= ranked_chunks[n].chunk.section_level
        /\ Len(ranked_chunks) <= 10
        /\ scored_chunks # <<>> =>
              /\ ranked_chunks # <<>>
              /\ ranked_chunks[1].combined_score = TopScore
              /\ ranked_chunks[1].chunk.section_level = TopLevel
              /\ \A n \in DOMAIN ranked_chunks :
                    ranked_chunks[n].combined_score >= TopScore - 15
              /\ Len(ranked_chunks) < 10 =>
                    \A i \in DOMAIN scored_chunks :
                        scored_chunks[i].combined_score >= TopScore - 15
                            => \E n \in DOMAIN ranked_chunks : ranked_chunks[n] = scored_chunks[i]

\* ranked: more than ten chunks of the top score, cut to ten, the last chunk
\* of the input first in the result because its section is the deepest
C20_Witness ==
    /\ rerank_pc = "ranked"
    /\ Len(scored_chunks) > MAX_RESULTS
    /\ Len(ranked_chunks) = MAX_RESULTS
    /\ ranked_chunks[1].chunk.chunk_id = Len(scored_chunks)
    /\ ranked_chunks[1].combined_score = ranked_chunks[2].combined_score
    /\ ranked_chunks[1].chunk.section_level > ranked_chunks[2].chunk.section_level

(***************************************************************************)
(* Degraded retrieval, and the exclusive index build.                      *)
(***************************************************************************)
\* a chunk scored on its lexical score alone
LexicalOnly(scored) ==
    /\ scored.semantic_score = 0
    /\ scored.combined_score \in
          {(W_LEXICAL * scored.lexical_score) \div 100,
           (W_LEXICAL * scored.lexical_score) \div 100 + METADATA_BOOST}

\* C21: a failed embedding call degrades the one request: the retriever sets
\* the degraded flag and scores every chunk with semantic score 0, retrieval
\* hands over to evidence extraction and the confidence stage without an ERROR
\* (an ERROR comes from failed generation alone), and the Index the other
\* requests read is left as it was.
C21_EmbeddingFailureDegrades ==
    /\ [](retrieval.degraded =>
             /\ \A i \in DOMAIN retrieval.rule_chunks : LexicalOnly(retrieval.rule_chunks[i])
             /\ pc = "done" => "compute_confidence" \in CallsMade
             /\ response.response_type = "error" => "GenerationServiceError" \in CallsMade)
    /\ [][(pc = "retrieve" /\ pc' # "cancelled")
             => /\ pc' = "extract"
                /\ response' = response
                /\ index' = index]_vars

\* a request answered from chunks retrieved in degraded mode
C21_Witness ==
    /\ pc = "done"
    /\ retrieval.degraded
    /\ retrieval.rule_chunks # <<>>
    /\ \E i \in DOMAIN retrieval.rule_chunks : retrieval.rule_chunks[i].lexical_score > 0
    /\ response.response_type = "answer"

\* the Index instances a build is working on: allocated and not swapped in
UnderConstruction == {i \in DOMAIN instances : i > served}

\* C22: at most one index (re)build is in progress at any time: at most one
\* instance is under construction, one exactly while the builder is busy, and a
\* new instance is allocated only when no build is running.
C22_OneBuildAtATime ==
    /\ [](/\ Cardinality(UnderConstruction) <= 1
          /\ builder.state = "idle" <=> UnderConstruction = {})
    /\ [][Len(instances') > Len(instances) => builder.state = "idle"]_vars

\* a rebuild at work on a second instance while the Index in service is read
C22_Witness ==
    /\ served = 1
    /\ Len(instances) = 2
    /\ builder.state = "embedding"
    /\ instances[1].version # instances[2].version
    /\ \E r \in Requests : readers[r].pc = "coarse"

(***************************************************************************)
(* The chat store: the context of a request, the custom mode.              *)
(***************************************************************************)
\* the messages the conversation of request s held before that request: all
\* up to its own user message and placeholder
MessagesBefore(s) ==
    LET messages == FindConversation(store, streams[s].conversationId).messages
        own == CHOOSE k \in DOMAIN messages : messages[k].id = streams[s].assistantMessageId
    IN  SubSeq(messages, 1, own - 2)

\* white space only
IsBlank(text) == \A k \in DOMAIN text : text[k] = " "

\* `trimmed` is `text` without the white space at its two ends
IsTrimOf(trimmed, text) ==
    /\ trimmed # <<>>
    /\ trimmed[1] # " "
    /\ trimmed[Len(trimmed)] # " "
    /\ \E a \in 0..Len(text) :
          /\ a + Len(trimmed) <= Len(text)
          /\ SubSeq(text, a + 1, a + Len(trimmed)) = trimmed
          /\ IsBlank(SubSeq(text, 1, a))
          /\ IsBlank(SubSeq(text, a + Len(trimmed) + 1, Len(text)))

\* a message that is not typing and has content other than white space
IsEligible(message) == ~message.isTyping /\ ~IsBlank(message.content)

\* the request sent last, on its way, in a conversation still in the store
JustSent(s) ==
    /\ s = Len(streams)
    /\ streams[s].phase = "open"
    /\ streams[s].fullContent = <<>>
    /\ streams[s].conversationId \in ConversationIds(store)
    /\ \E m \in MessagesOf(store) : m.id = streams[s].assistantMessageId

C24_CustomModeRouteType ==
    [][(Len(streams') > Len(streams) /\ store.solutionMode = "custom")
          => LET request == streams'[Len(streams')].request
             IN  /\ request.endpoint = "custom"
                 /\ request.route_type \in
                       {"cancer_recognition", "symptom_triage", "referral_guidance"}]_vars

\* C25: at most one streamed request is in flight at any time, and isLoading
\* is true whenever a stream is still in flight.
C25_OneStreamInFlight ==
    LET inFlight == {s \in Streams : StreamInFlight(s)}
    IN  /\ Cardinality(inFlight) <= 1
        /\ inFlight # {} => store.isLoading

\* stream s delivers a chunk, its completion or its error in this step
CallbackOf(s) ==
    /\ s \in Streams
    /\ StreamInFlight(s)
    /\ Len(streams') = Len(streams)
    /\ \/ streams'[s].fullContent # streams[s].fullContent
       \/ streams'[s].phase = "closed"

\* conversation `after` is conversation `before` but for message messageId and updatedAt
SameButMessage(before, after, messageId) ==
    /\ after.id = before.id
    /\ after.title = before.title
    /\ after.createdAt = before.createdAt
    /\ Len(after.messages) = Len(before.messages)
    /\ \A k \in DOMAIN before.messages :
          /\ after.messages[k].id = before.messages[k].id
          /\ before.messages[k].id # messageId => after.messages[k] = before.messages[k]

\* C26: the callbacks of a stream change only the assistant placeholder of
\* that request inside the conversation it was sent from, whatever the active
\* conversation is by then; every other message and conversation stays as it
\* is, the active conversation stays, and a deleted conversation is not
\* created again.
C26_CallbacksPatchOwnPlaceholder ==
    [][\A s \in Streams :
          CallbackOf(s)
             => /\ store'.activeConversationId = store.activeConversationId
                /\ Len(store'.conversations) = Len(store.conversations)
                /\ \A i \in DOMAIN store.conversations :
                      IF store.conversations[i].id = streams[s].conversationId
                      THEN SameButMessage(store.conversations[i], store'.conversations[i],
                                          streams[s].assistantMessageId)
                      ELSE store'.conversations[i] = store.conversations[i]]_vars

\* a stream was completed after another conversation had been created and
\* made active: its placeholder is final in a conversation that is not active
C26_Witness ==
    \E s \in Streams, i, j \in DOMAIN store.conversations :
        /\ streams[s].phase # "open"
        /\ store.conversations[i].id = streams[s].conversationId
        /\ store.activeConversationId = store.conversations[j].id
        /\ i # j
        /\ store.conversations[j].id > streams[s].assistantMessageId
        /\ store.conversations[i].updatedAt.date > store.conversations[j].createdAt.date
        /\ \E k \in DOMAIN store.conversations[i].messages :
              /\ store.conversations[i].messages[k].id = streams[s].assistantMessageId
              /\ ~store.conversations[i].messages[k].isTyping
              /\ store.conversations[i].messages[k].content # <<>>

CompiledIn(c) ==
    /\ c \in DOMAIN compiles
    /\ compiles[c].phase = "pending"
    /\ Len(compiles') = Len(compiles)
    /\ compiles'[c].phase = "done"

\* C29: the compiled pathway response is appended as one new assistant
\* message, of response_type answer when meets_criteria and clarification
\* otherwise, to the conversation of the message the pathway tool was opened
\* from, whatever the active conversation is by then; no other conversation
\* is modified.
C29_PathwayResponseInItsConversation ==
    [][\A c \in DOMAIN compiles :
          CompiledIn(c)
             => /\ Len(store'.conversations) = Len(store.conversations)
                /\ \A i \in DOMAIN store.conversations :
                      LET before == store.conversations[i]
                          after == store'.conversations[i]
                      IN  IF before.id = compiles[c].conversationId
                          THEN /\ Len(after.messages) = Len(before.messages) + 1
                               /\ SubSeq(after.messages, 1, Len(before.messages)) = before.messages
                               /\ after.messages[Len(after.messages)].role = "assistant"
                               /\ after.messages[Len(after.messages)].response_type =
                                     IF compiles'[c].meets_criteria THEN "answer"
                                     ELSE "clarification"
                          ELSE after = before]_vars

\* the page has settled with the route on the active conversation, or on /chat
Synced ==
    /\ ~RenderDue
    /\ url = NO_ID \/ url = store.activeConversationId

\* C30: once the user acts no more, the effects of ChatPage bring the page,
\* also while a stream updates the conversations, to a settled state in which
\* the route names the active conversation or none; they do not alternate
\* for ever.
C30_UrlSyncConverges == []<><<UserAction>>_vars \/ <>[]Synced

=============================================================================
